---- MODULE Spec2Model ----
(***************************************************************************)
(* WasteWise backend: the response reconciler of GeminiService, the point  *)
(* computation, and the scan routes that call them.                        *)
(*                                                                         *)
(* Representation.                                                         *)
(*  - A text (Python str) is a sequence of symbols.  A symbol is one       *)
(*    character [c |-> "x"], or one whole JSON member [k |-> key, v |->    *)
(*    value], or one whole non-object JSON document [doc |-> value].       *)
(*    Indices, slices and lengths count symbols.                           *)
(*  - A JSON / Python value is a record tagged by ty.  Floats are kept in  *)
(*    hundredths (0.3 is 30, 1.0 is 100); NaN is its own value.            *)
(*  - A Python dict is a function from its keys to values.                 *)
(***************************************************************************)
EXTENDS Integers, Sequences, FiniteSets, TLC

VARIABLES
    ai_text,    \* the raw text the AI model returned for the text at hand
    result,     \* the dict the reconciler returned for it (NoResult before)
    points,     \* points_earned computed for that dict (-1 before)
    phase,      \* "received" -> "parsed" -> "scored"; "serving" in the service
    firestore,  \* "up", or "none" when get_firestore_client() returns None
    scans,      \* collection waste_scans: scan id -> document
    users,      \* collection users: user id -> statistics
    clock,      \* datetime.utcnow(), in whole seconds
    request,    \* the request handled last (NoRequest before the first)
    response,   \* the response it got
    handled,    \* how many requests were handled
    environment, \* settings.ENVIRONMENT: "production" or "development"
    inflight,   \* server process -> the scan it is storing, and how far it got
    codec       \* the base64 conversion at hand: its input and the value so far

reconcilerVars == <<ai_text, result, points, phase, codec>>
serviceVars == <<firestore, scans, users, clock, request, response, handled,
                 environment, inflight>>
vars == <<ai_text, result, points, phase, firestore, scans, users, clock,
          request, response, handled, environment, inflight, codec>>

(* ------------------------------ values -------------------------------- *)
Str(s) == [ty |-> "str", s |-> s]
RawStr(t) == [ty |-> "str", t |-> t]
Num(n) == [ty |-> "num", n |-> n]
NaN == [ty |-> "nan"]
Bool(b) == [ty |-> "bool", b |-> b]
Null == [ty |-> "null"]
List(l) == [ty |-> "list", l |-> l]
Dict(d) == [ty |-> "dict", d |-> d]

EmptyDict == [x \in {} |-> Null]

\* The server processes that share the store, and none of them storing a scan.
Processes == {"p1", "p2"}
Idle == [pc |-> "idle"]
NoneInFlight == [p \in Processes |-> Idle]

\* No base64 conversion at hand.
NoCodec == [steps |-> 0]

\* Python truthiness (bool(v)).
Truthy(v) ==
    CASE v.ty = "null" -> FALSE
      [] v.ty = "bool" -> v.b
      [] v.ty = "num" -> v.n # 0
      [] v.ty = "nan" -> TRUE
      [] v.ty = "list" -> Len(v.l) > 0
      [] v.ty = "dict" -> DOMAIN v.d # {}
      [] OTHER -> IF "s" \in DOMAIN v THEN v.s # "" ELSE Len(v.t) > 0

(* ------------------------------ config -------------------------------- *)
WASTE_CATEGORIES ==
    << "Recyclable Plastic", "Paper & Cardboard", "Organic/Compost",
       "Hazardous Waste", "Non-Recyclable", "Metal & Glass", "E-Waste",
       "Unknown" >>

POINTS_CORRECT_DISPOSAL == 50

Guide(bin, ins, ex, co2, dec) ==
    [bin_color |-> Str(bin), instructions |-> List(ins), examples |-> List(ex),
     co2_saved_per_kg |-> Num(co2), decomposition_time |-> Str(dec)]

WASTE_DISPOSAL_GUIDES ==
    [c \in {"Recyclable Plastic", "Paper & Cardboard", "Organic/Compost",
            "Hazardous Waste", "Metal & Glass", "E-Waste", "Non-Recyclable"} |->
      CASE c = "Recyclable Plastic" ->
             Guide("BLUE",
                   << "Remove caps and labels if possible",
                      "Rinse clean of food residue",
                      "Flatten bottles to save space",
                      "Place in blue recycling bin" >>,
                   << "Plastic bottles", "Food containers", "Plastic bags" >>,
                   150, "450 years")
        [] c = "Paper & Cardboard" ->
             Guide("BLUE",
                   << "Keep dry and clean", "Flatten cardboard boxes",
                      "Remove any plastic tape or stickers",
                      "Place in blue recycling bin" >>,
                   << "Newspapers", "Cardboard boxes", "Office paper" >>,
                   90, "2-6 weeks")
        [] c = "Organic/Compost" ->
             Guide("GREEN",
                   << "Remove any plastic or packaging",
                      "Can mix with yard waste", "Keep in green compost bin",
                      "Avoid meat and dairy (for home composting)" >>,
                   << "Food scraps", "Fruit peels", "Coffee grounds" >>,
                   30, "2-4 weeks")
        [] c = "Hazardous Waste" ->
             Guide("RED",
                   << "DO NOT mix with regular trash",
                      "Store safely until drop-off",
                      "Take to hazardous waste facility",
                      "Follow local regulations" >>,
                   << "Batteries", "Paint", "Chemicals", "Fluorescent bulbs" >>,
                   0, "Never decomposes safely")
        [] c = "Metal & Glass" ->
             Guide("BLUE",
                   << "Rinse containers clean", "Remove lids and caps",
                      "Can mix metals and glass",
                      "Place in blue recycling bin" >>,
                   << "Aluminum cans", "Steel cans", "Glass bottles" >>,
                   210, "Glass: 1M years, Metal: 50-200 years")
        [] c = "E-Waste" ->
             Guide("SPECIAL",
                   << "Remove batteries if possible",
                      "Wipe personal data from devices",
                      "Take to e-waste collection center",
                      "Check for manufacturer take-back programs" >>,
                   << "Old phones", "Computers", "Cables", "Appliances" >>,
                   180, "Never decomposes, toxic materials")
        [] OTHER ->
             Guide("BLACK/GREY",
                   << "Place in general waste bin",
                      "Seal in bag if contaminated",
                      "Consider reducing usage of these items",
                      "Check if alternative disposal exists" >>,
                   << "Styrofoam", "Dirty plastics", "Mixed materials" >>,
                   0, "Varies, often hundreds of years")]

(* --------------------------- Python str ops --------------------------- *)
Ch(c) == [c |-> c]

\* The marker of a fenced code block: three backticks.
Backtick == Ch("tick")
Fence == << Backtick, Backtick, Backtick >>
FenceJson == Fence \o << Ch("j"), Ch("s"), Ch("o"), Ch("n") >>

Space == Ch(" ")
Newline == Ch("nl")
IsSpace(sym) == sym \in {Space, Newline}

\* s[a:b] with Python's 0-based indices; a negative index counts from the end.
PySlice(s, a, b) ==
    LET norm(i) == IF i < 0 THEN (IF Len(s) + i < 0 THEN 0 ELSE Len(s) + i)
                   ELSE (IF i > Len(s) THEN Len(s) ELSE i)
        lo == norm(a)
        hi == norm(b)
    IN  IF hi <= lo THEN << >> ELSE SubSeq(s, lo + 1, hi)

\* s.find(sub, start): the lowest 0-based index >= start where sub occurs, or -1.
PyFind(s, sub, start) ==
    LET hits == { i \in start .. (Len(s) - Len(sub)) :
                    SubSeq(s, i + 1, i + Len(sub)) = sub }
    IN  IF hits = {} THEN -1
        ELSE CHOOSE i \in hits : \A j \in hits : i <= j

\* sub in s
PyContains(s, sub) == PyFind(s, sub, 0) >= 0

\* s.strip()
PyStrip(s) ==
    LET keep == { i \in 1 .. Len(s) : ~IsSpace(s[i]) }
    IN  IF keep = {} THEN << >>
        ELSE LET first == CHOOSE i \in keep : \A j \in keep : i <= j
                 last == CHOOSE i \in keep : \A j \in keep : i >= j
             IN  SubSeq(s, first, last)

(* ------------------------------ json.loads ---------------------------- *)
Raise(exc) == [ok |-> FALSE, exc |-> exc]
Return(v) == [ok |-> TRUE, v |-> v]

IsMember(sym) == "k" \in DOMAIN sym
IsDoc(sym) == "doc" \in DOMAIN sym

\* The members between the braces: member ("," member)*, or nothing.
MembersWellFormed(inner) ==
    \/ Len(inner) = 0
    \/ /\ Len(inner) % 2 = 1
       /\ \A i \in 1 .. Len(inner) :
            IF i % 2 = 1 THEN IsMember(inner[i]) ELSE inner[i] = Ch(",")

\* The dict of an object's members; a repeated key keeps its last value.
ObjectOf(inner) ==
    LET keys == { inner[i].k : i \in { j \in 1 .. Len(inner) : IsMember(inner[j]) } }
        lastOf(key) == CHOOSE i \in 1 .. Len(inner) :
                          /\ IsMember(inner[i]) /\ inner[i].k = key
                          /\ \A j \in 1 .. Len(inner) :
                               (IsMember(inner[j]) /\ inner[j].k = key) => j <= i
    IN  [key \in keys |-> inner[lastOf(key)].v]

\* A string value may hold any character, the three backticks of a fence
\* marker too.  Such a member is spelled as five symbols: its opening
\* characters [open |-> key], the three backticks, its closing characters.
CloseQuote == [close |-> TRUE]
IsOpen(sym) == "open" \in DOMAIN sym
FencedString == Str("text with a fence marker inside")
Dropped == [dropped |-> TRUE]

\* The symbols of text with every such five-symbol member read as one member.
Lexed(text) ==
    LET starts == { i \in 1 .. Len(text) - 4 :
                      /\ IsOpen(text[i])
                      /\ SubSeq(text, i + 1, i + 3) = Fence
                      /\ text[i + 4] = CloseQuote }
        marked == [i \in 1 .. Len(text) |->
                     IF i \in starts THEN [k |-> text[i].open, v |-> FencedString]
                     ELSE IF \E j \in starts : j < i /\ i <= j + 4 THEN Dropped
                          ELSE text[i]]
    IN  SelectSeq(marked, LAMBDA sym : sym # Dropped)

\* json.loads(text): whitespace between tokens is skipped; anything that is
\* not one JSON document raises JSONDecodeError.
JsonLoads(text) ==
    LET toks == SelectSeq(Lexed(text), LAMBDA sym : ~IsSpace(sym))
        n == Len(toks)
    IN  IF n = 1 /\ IsDoc(toks[1]) THEN Return(toks[1].doc)
        ELSE IF /\ n >= 2 /\ toks[1] = Ch("{") /\ toks[n] = Ch("}")
                /\ MembersWellFormed(SubSeq(toks, 2, n - 1))
             THEN Return(Dict(ObjectOf(SubSeq(toks, 2, n - 1))))
             ELSE Raise("JSONDecodeError")

(* ------------------------------ float() ------------------------------- *)
\* The strings float() accepts, with their value in hundredths.
NumericStrings ==
    [s \in {"1.7", "-3", "0.5", "0.95", "nan"} |->
       CASE s = "1.7" -> Num(170)
         [] s = "-3" -> Num(-300)
         [] s = "0.5" -> Num(50)
         [] s = "0.95" -> Num(95)
         [] OTHER -> NaN]

PyFloat(v) ==
    CASE v.ty = "num" -> Return(v)
      [] v.ty = "nan" -> Return(v)
      [] v.ty = "bool" -> Return(Num(IF v.b THEN 100 ELSE 0))
      [] v.ty = "str" -> IF v.s \in DOMAIN NumericStrings
                         THEN Return(NumericStrings[v.s])
                         ELSE Raise("ValueError")
      [] OTHER -> Raise("TypeError")

\* a < b on floats; every comparison with NaN is false.
FloatLt(a, b) == a.ty = "num" /\ b.ty = "num" /\ a.n < b.n

FloatGe(a, b) == a.ty = "num" /\ b.ty = "num" /\ a.n >= b.n

\* min(a, b) and max(a, b) as Python computes them: b replaces a only when
\* b < a (b > a).
PyMin(a, b) == IF FloatLt(b, a) THEN b ELSE a
PyMax(a, b) == IF FloatLt(a, b) THEN b ELSE a

\* The clamp without its lower bound.
ClampConfidence_NoFloor(x) == PyMin(Num(100), x)

ClampConfidence(x) == PyMax(Num(0), PyMin(Num(100), x))

(* --------------------------- the reconciler --------------------------- *)
RawCopyLen == 500

_create_fallback_response(raw_response) ==
    [f \in {"item_name", "category", "confidence", "subcategory", "recyclable",
            "disposal_steps", "bin_color", "environmental_impact",
            "additional_tips", "warnings", "alternatives", "raw_ai_response"} |->
       CASE f = "item_name" -> Str("Unknown Item")
         [] f = "category" -> Str("Unknown")
         [] f = "confidence" -> Num(30)
         [] f = "subcategory" -> Str("Unidentified")
         [] f = "recyclable" -> Bool(FALSE)
         [] f = "disposal_steps" ->
              List(<< "Unable to identify waste type clearly",
                      "Please retake photo with better lighting",
                      "Ensure the item is clearly visible",
                      "Consult local waste management guidelines" >>)
         [] f = "bin_color" -> Str("GREY")
         [] f = "environmental_impact" ->
              Dict([k \in {"co2_saved_kg", "decomposition_time",
                           "recycling_potential"} |->
                      IF k = "co2_saved_kg" THEN Num(0) ELSE Str("Unknown")])
         [] f = "additional_tips" ->
              List(<< "Try taking a clearer photo", "Ensure good lighting",
                      "Focus on one item at a time" >>)
         [] f = "warnings" ->
              List(<< "Could not identify waste type with high confidence" >>)
         [] f = "alternatives" -> Str("Please try scanning again")
         [] OTHER -> RawStr(PySlice(raw_response, 0, RawCopyLen))]

\* The extraction that takes a json-tagged fence for a plain one.
ExtractJson_TagAsPayload(response_text) ==
    IF PyContains(response_text, Fence)
    THEN LET json_start == PyFind(response_text, Fence, 0) + 3
             json_end == PyFind(response_text, Fence, json_start)
         IN  PyStrip(PySlice(response_text, json_start, json_end))
    ELSE response_text

\* Lines 147-154: the text handed to json.loads.
ExtractJson(response_text) ==
    IF PyContains(response_text, FenceJson)
    THEN LET json_start == PyFind(response_text, FenceJson, 0) + 7
             json_end == PyFind(response_text, Fence, json_start)
         IN  PyStrip(PySlice(response_text, json_start, json_end))
    ELSE IF PyContains(response_text, Fence)
         THEN LET json_start == PyFind(response_text, Fence, 0) + 3
                  json_end == PyFind(response_text, Fence, json_start)
              IN  PyStrip(PySlice(response_text, json_start, json_end))
         ELSE response_text

required_fields == << "item_name", "category", "confidence" >>

SeqRange(q) == { q[i] : i \in 1 .. Len(q) }

\* d[key] = v
DictSet(d, key, v) == [k \in DOMAIN d \cup {key} |-> IF k = key THEN v ELSE d[k]]

\* d.setdefault(key, v)
DictSetDefault(d, key, v) == IF key \in DOMAIN d THEN d ELSE DictSet(d, key, v)

\* The required-field loop that forgets item_name.
CheckRequired_NoItemName(data) ==
    IF data.ty \notin {"dict", "list"} THEN Raise("TypeError")
    ELSE LET have == IF data.ty = "dict" THEN DOMAIN data.d ELSE SeqRange(data.l)
         IN  IF \E i \in 2 .. Len(required_fields) : required_fields[i] \notin have
             THEN Raise("ValueError")
             ELSE IF data.ty # "dict" THEN Raise("TypeError")
                  ELSE Return(data.d)

\* Lines 159-163: the first exception of the required-field loop, or none.
\* `field not in data` raises TypeError on a number, tests elements on a
\* list and keys on a dict.
CheckRequired(data) ==
    IF data.ty \notin {"dict", "list"} THEN Raise("TypeError")
    ELSE LET have == IF data.ty = "dict" THEN DOMAIN data.d ELSE SeqRange(data.l)
         IN  IF \E i \in 1 .. Len(required_fields) : required_fields[i] \notin have
             THEN Raise("ValueError")
             ELSE IF data.ty # "dict" THEN Raise("TypeError")
                  ELSE Return(data.d)

\* The category check that coerces nothing.
ValidateCategory_NoCoercion(d) == d

\* Lines 165-168.
ValidateCategory(d) ==
    IF d["category"] \notin { Str(c) : c \in SeqRange(WASTE_CATEGORIES) }
    THEN DictSet(d, "category", Str("Unknown"))
    ELSE d

\* Lines 170-171.
EnsureConfidence(d) ==
    LET f == PyFloat(d["confidence"])
    IN  IF f.ok THEN Return(DictSet(d, "confidence", ClampConfidence(f.v))) ELSE f

\* Lines 178-179.
BackfillSteps_OnlyIfAbsent(d, guide) ==
    IF "disposal_steps" \notin DOMAIN d
    THEN DictSet(d, "disposal_steps", guide["instructions"])
    ELSE d

BackfillSteps(d, guide) ==
    IF "disposal_steps" \notin DOMAIN d \/ ~Truthy(d["disposal_steps"])
    THEN DictSet(d, "disposal_steps", guide["instructions"])
    ELSE d

\* The backfill that lets the guide's bin colour win.
BackfillBinColor_GuideWins(d, guide) == DictSet(d, "bin_color", guide["bin_color"])

\* Lines 181-182.
BackfillBinColor(d, guide) ==
    IF "bin_color" \notin DOMAIN d THEN DictSet(d, "bin_color", guide["bin_color"])
    ELSE d

\* Lines 185-195: setdefault exists on a dict only.
BackfillImpact(d, guide) ==
    LET d1 == IF "environmental_impact" \notin DOMAIN d
              THEN DictSet(d, "environmental_impact", Dict(EmptyDict))
              ELSE d
        env == d1["environmental_impact"]
    IN  IF env.ty # "dict" THEN Raise("AttributeError")
        ELSE Return(DictSet(d1, "environmental_impact",
               Dict(DictSetDefault(
                      DictSetDefault(env.d, "co2_saved_kg", guide["co2_saved_per_kg"]),
                      "decomposition_time", guide["decomposition_time"]))))

\* Lines 173-198.  `x in WASTE_DISPOSAL_GUIDES` hashes x: a list or a dict
\* raises TypeError, any other non-key is simply not found.
AddDisposalGuide(d) ==
    LET cat == d["category"]
    IN  IF cat.ty \in {"list", "dict"} THEN Raise("TypeError")
        ELSE IF cat.ty = "str" /\ "s" \in DOMAIN cat /\ cat.s \in DOMAIN WASTE_DISPOSAL_GUIDES
             THEN LET guide == WASTE_DISPOSAL_GUIDES[cat.s]
                      r == BackfillImpact(
                             BackfillBinColor(BackfillSteps(d, guide), guide), guide)
                  IN  IF r.ok THEN Return(DictSet(r.v, "examples", guide["examples"]))
                      ELSE r
             ELSE Return(d)

\* Lines 159-200: the body of the try block after json.loads.
Reconcile(data) ==
    LET req == CheckRequired(data)
    IN  IF ~req.ok THEN req
        ELSE LET conf == EnsureConfidence(ValidateCategory(req.v))
             IN  IF ~conf.ok THEN conf ELSE AddDisposalGuide(conf.v)

_parse_gemini_response(text) ==
    LET extracted == ExtractJson(text)
        data == JsonLoads(extracted)
    IN  IF ~data.ok THEN _create_fallback_response(extracted)
        ELSE LET r == Reconcile(data.v)
             IN  IF r.ok THEN r.v ELSE _create_fallback_response(extracted)

(* ------------------------------- points ------------------------------- *)
DictGet(d, key, default) == IF key \in DOMAIN d THEN d[key] ELSE default

\* The points with a cap of 100.
_calculate_points_Capped(waste_data) ==
    LET total == POINTS_CORRECT_DISPOSAL
                 + (IF FloatGe(DictGet(waste_data, "confidence", Num(0)), Num(90))
                    THEN 10 ELSE 0)
                 + (IF Truthy(DictGet(waste_data, "recyclable", Bool(FALSE)))
                    THEN 20 ELSE 0)
                 + (IF DictGet(waste_data, "category", Null)
                         \in {Str("Hazardous Waste"), Str("E-Waste")} THEN 30 ELSE 0)
    IN  IF total > 100 THEN 100 ELSE total

_calculate_points(waste_data) ==
    LET confidence == DictGet(waste_data, "confidence", Num(0))
    IN  POINTS_CORRECT_DISPOSAL
        + (IF FloatGe(confidence, Num(90)) THEN 10 ELSE 0)
        + (IF Truthy(DictGet(waste_data, "recyclable", Bool(FALSE))) THEN 20 ELSE 0)
        + (IF DictGet(waste_data, "category", Null)
                \in {Str("Hazardous Waste"), Str("E-Waste")} THEN 30 ELSE 0)

(* ------------------------------ uploads ------------------------------- *)
MAX_UPLOAD_SIZE == 10 * 1024 * 1024
ALLOWED_IMAGE_TYPES == {"image/jpeg", "image/png", "image/jpg", "image/webp"}
max_dimension == 4096
min_dimension == 50

\* An upload: the Content-Type the client declared, the file name's
\* extension, the byte count, what magic.from_buffer reports for the bytes
\* ("error" when it raises), whether PIL decodes them, and the picture's size.
Upload(ct, ext, size, mime, decodes, w, h) ==
    [content_type |-> ct, ext |-> ext, size |-> size, mime |-> mime,
     decodes |-> decodes, width |-> w, height |-> h]

Uploads ==
    { Upload("image/png", ".png", 2048, "image/png", TRUE, 3000, 3000),
      Upload("image/jpeg", ".jpg", 2048, "image/jpeg", TRUE, 50, 4096),
      Upload("text/plain", ".txt", 2048, "image/png", TRUE, 3000, 3000),
      Upload("image/png", ".txt", 2048, "image/png", TRUE, 3000, 3000),
      Upload("image/jpeg", ".jpg", 2048, "image/gif", TRUE, 100, 100),
      Upload("image/jpeg", ".jpg", 2048, "text/plain", FALSE, 0, 0),
      Upload("image/png", ".png", 0, "application/x-empty", FALSE, 0, 0),
      Upload("text/plain", ".txt", 0, "application/x-empty", FALSE, 0, 0),
      Upload("image/png", ".png", MAX_UPLOAD_SIZE + 1, "image/png", TRUE, 3000, 3000),
      Upload("image/png", ".png", 2048, "image/png", TRUE, 49, 3000),
      Upload("image/png", ".png", 2048, "image/png", TRUE, 4097, 100),
      Upload("image/png", ".png", 2048, "image/png", FALSE, 0, 0),
      Upload("image/png", ".txt", 2048, "error", TRUE, 3000, 3000) }

\* The validation without the size limit.
validate_image_NoSizeLimit(u) ==
    IF u.size = 0 THEN [ok |-> FALSE, msg |-> "File is empty"]
    ELSE IF u.mime # "error" /\ u.mime \notin ALLOWED_IMAGE_TYPES
    THEN [ok |-> FALSE, msg |-> "Invalid file type. Allowed types: JPEG, PNG, JPG, WEBP"]
    ELSE IF ~u.decodes THEN [ok |-> FALSE, msg |-> "Invalid or corrupted image file"]
    ELSE [ok |-> TRUE, msg |-> "None"]

\* ImageProcessor.validate_image: (is_valid, error_message).
validate_image(u) ==
    IF u.size > MAX_UPLOAD_SIZE
    THEN [ok |-> FALSE, msg |-> "File too large. Maximum size is 10.0MB"]
    ELSE IF u.size = 0 THEN [ok |-> FALSE, msg |-> "File is empty"]
    ELSE IF u.mime # "error" /\ u.mime \notin ALLOWED_IMAGE_TYPES
    THEN [ok |-> FALSE, msg |-> "Invalid file type. Allowed types: JPEG, PNG, JPG, WEBP"]
    ELSE IF u.mime = "error" /\ u.ext \notin {".jpg", ".jpeg", ".png", ".webp"}
    THEN [ok |-> FALSE, msg |-> "Invalid file type"]
    ELSE IF ~u.decodes THEN [ok |-> FALSE, msg |-> "Invalid or corrupted image file"]
    ELSE IF u.width < min_dimension \/ u.height < min_dimension
    THEN [ok |-> FALSE, msg |-> "Image too small (minimum 50x50 pixels)"]
    ELSE IF u.width > max_dimension \/ u.height > max_dimension
    THEN [ok |-> FALSE, msg |-> "Image too large (maximum 4096x4096 pixels)"]
    ELSE [ok |-> TRUE, msg |-> "None"]

(* --------------------------- identify_waste --------------------------- *)
\* What the AI call does: it raises (network, auth, quota), or returns text.
\* exc is str(e) of the exception raised.
AiFails == [ok |-> FALSE, exc |-> "429 quota exceeded for project wastewise"]
AiReturns(text) == [ok |-> TRUE, text |-> text]

\* The metadata identify_waste adds to the reconciled result.
Stamped(parsed, now) ==
    DictSet(DictSet(DictSet(parsed, "processing_time_seconds", Num(0)),
                    "model_used", Str("gemini")), "timestamp", Num(now))

\* result["points_earned"] = self._calculate_points(result)
WithPoints(stamped) == DictSet(stamped, "points_earned", Num(_calculate_points(stamped)))

\* identify_waste on a prepared image: the reconciled result with its
\* metadata and points, or the error dict when the AI call raised.
identify_waste(ai, now) ==
    IF ~ai.ok
    THEN [k \in {"error", "error_message", "item_name", "category", "confidence",
                 "processing_time_seconds"} |->
            CASE k = "error" -> Bool(TRUE)
              [] k = "error_message" -> Str(ai.exc)
              [] k = "item_name" -> Str("Error")
              [] k = "category" -> Str("Unknown")
              [] OTHER -> Num(0)]
    ELSE WithPoints(Stamped(_parse_gemini_response(ai.text), now))

(* ----------------------------- persistence ---------------------------- *)
NoUser == "None"
UserIds == {NoUser, "u1", "u2"}

\* The faults of the store during one request.
DbFaults == {"none", "set_raises", "stats_raises"}

\* scan_data.get("environmental_impact", {}).get("co2_saved_kg", 0.0):
\* .get exists on a dict only.
Co2Of(scan_data) ==
    LET env == DictGet(scan_data, "environmental_impact", Dict(EmptyDict))
    IN  IF env.ty # "dict" THEN Raise("AttributeError")
        ELSE Return(DictGet(env.d, "co2_saved_kg", Num(0)))

\* update_user_stats: the users collection afterwards.  Every exception is
\* caught and leaves the collection as it was; adding a non-number raises.
update_user_stats(us, user_id, scan_data, fault) ==
    LET co2 == Co2Of(scan_data)
        pts == DictGet(scan_data, "points_earned", Num(0))
    IN  IF fault = "stats_raises" \/ ~co2.ok THEN us
        ELSE IF user_id \in DOMAIN us
             THEN IF us[user_id].co2_saved_kg.ty # "num" \/ co2.v.ty # "num" THEN us
                  ELSE [us EXCEPT ![user_id] =
                          [@ EXCEPT !.total_scans = @ + 1,
                                    !.total_points = @ + pts.n,
                                    !.co2_saved_kg = Num(@.n + co2.v.n)]]
             ELSE [u \in DOMAIN us \cup {user_id} |->
                     IF u = user_id
                     THEN [total_scans |-> 1, total_points |-> pts.n,
                           co2_saved_kg |-> co2.v, level |-> 1]
                     ELSE us[u]]

\* The id of the scan: "scan_<utc second>_<user id or anonymous>", or
\* "scan_<utc second>" when nothing was stored.
ScanId(now, user_id) == [t |-> now, u |-> IF user_id = NoUser THEN "anonymous" ELSE user_id]
UnsavedScanId(now) == [t |-> now]

\* The document save_scan_to_database prepares.
ScanDocument(scan_data, user_id, now) ==
    [scan_id |-> ScanId(now, user_id),
     user_id |-> IF user_id = NoUser THEN "anonymous" ELSE user_id,
     item_name |-> DictGet(scan_data, "item_name", Null),
     category |-> DictGet(scan_data, "category", Null),
     confidence |-> DictGet(scan_data, "confidence", Null),
     recyclable |-> DictGet(scan_data, "recyclable", Null),
     points_earned |-> DictGet(scan_data, "points_earned", Num(0)),
     timestamp |-> now]

\* A save that gives the scan record up when the statistics update raises.
save_scan_to_database_AllOrNothing(sc, us, db, scan_data, user_id, now, fault) ==
    IF db = "none" \/ fault \in {"set_raises", "stats_raises"}
    THEN [scans |-> sc, users |-> us, scan_id |-> UnsavedScanId(now)]
    ELSE [scans |-> DictSet(sc, ScanId(now, user_id), ScanDocument(scan_data, user_id, now)),
          users |-> IF user_id # NoUser
                    THEN update_user_stats(us, user_id, scan_data, fault)
                    ELSE us,
          scan_id |-> ScanId(now, user_id)]

\* save_scan_to_database: the two collections afterwards and the scan id.
save_scan_to_database(sc, us, db, scan_data, user_id, now, fault) ==
    IF db = "none" \/ fault = "set_raises"
    THEN [scans |-> sc, users |-> us, scan_id |-> UnsavedScanId(now)]
    ELSE LET scan_id == ScanId(now, user_id)
             document == ScanDocument(scan_data, user_id, now)
             written == [i \in DOMAIN sc \cup {scan_id} |->
                           IF i = scan_id THEN document ELSE sc[i]]
         IN  [scans |-> written,
              users |-> IF user_id # NoUser
                        THEN update_user_stats(us, user_id, scan_data, fault)
                        ELSE us,
              scan_id |-> scan_id]

(* ------------------------------ the routes ---------------------------- *)
\* raise HTTPException(status_code, detail): no handler is registered for
\* it, so the framework answers with the body {"detail": detail}.  A detail
\* is the sequence of the pieces its f-string joins.
HttpError(code, detail) ==
    [status |-> code, detail |-> detail, body |-> [detail |-> detail]]

\* RequestValidationError, answered by validation_exception_handler.
ValidationError(errors) ==
    [status |-> 422,
     body |-> [success |-> FALSE, error |-> "Validation Error",
               message |-> "Invalid request data", details |-> errors]]

\* general_exception_handler: the answer to an exception no route caught.
\* The routes catch every exception themselves and raise HTTPException.
general_exception_handler(env, text) ==
    [status |-> 500,
     body |-> [success |-> FALSE, error |-> "Internal Server Error",
               message |-> IF env = "production" THEN "An internal error occurred"
                           ELSE text]]

\* The detail of the 500 a route makes of an error result of identify_waste.
AiErrorDetail(route, error_message) ==
    IF route = "/scan" THEN << "Waste identification failed: ", error_message >>
    ELSE << error_message >>

\* The detail of the 500 a route makes of any other exception e: str(e).
ExceptionDetail(route, text) ==
    IF route = "/scan" THEN << "An error occurred during waste identification: ", text >>
    ELSE << text >>

\* WasteScanResponse(**result): whether the model accepts the dict.
WasteScanResponseAccepts(r) ==
    /\ {"item_name", "category", "confidence", "recyclable", "disposal_steps",
        "bin_color", "environmental_impact", "processing_time_seconds",
        "timestamp"} \subseteq DOMAIN r
    /\ r["item_name"].ty = "str"
    /\ r["category"].ty = "str"
    /\ r["confidence"].ty = "num" /\ 0 <= r["confidence"].n /\ r["confidence"].n <= 100
    /\ r["recyclable"].ty = "bool"
    /\ r["disposal_steps"].ty = "list"
    /\ r["bin_color"].ty = "str"
    /\ r["environmental_impact"].ty = "dict"

\* Both scan routes from the validated image on: classify, store, answer.
\* The outcome is the response and the two collections afterwards.
\* response_data = WasteScanResponse(**result); return JSONResponse(200, ...).
\* A ValidationError is caught by the route's `except Exception` and becomes 500.
Respond(saved, body, route) ==
    [response |->
       IF WasteScanResponseAccepts(body)
       THEN [status |-> 200, body |-> body, scan_id |-> saved.scan_id]
       ELSE HttpError(500, ExceptionDetail(route, "validation error for WasteScanResponse")),
     scans |-> saved.scans, users |-> saved.users]

\* From the result of identify_waste on: the error check, the save, the answer.
StoreAndRespond(identified, sc, us, db, user_id, now, fault, route) ==
    IF "error" \in DOMAIN identified /\ Truthy(identified["error"])
    THEN [response |-> HttpError(500, AiErrorDetail(route, identified["error_message"].s)),
          scans |-> sc, users |-> us]
    ELSE Respond(save_scan_to_database(sc, us, db, identified, user_id, now, fault),
                 DictSet(identified, "timestamp", Str("isoformat")), route)

ClassifyAndStore(sc, us, db, user_id, ai, now, fault, route) ==
    StoreAndRespond(identify_waste(ai, now), sc, us, db, user_id, now, fault, route)

\* file.content_type is set and starts with 'image/'.
StartsWithImage(ct) == ct \in {"image/png", "image/jpeg", "image/webp", "image/gif"}

\* POST /scan.
scan_waste_image(sc, us, db, u, user_id, ai, now, fault) ==
    IF ~StartsWithImage(u.content_type)
    THEN [response |-> HttpError(400, << "Invalid file type. Please upload an image file (JPEG, PNG, WebP)" >>),
          scans |-> sc, users |-> us]
    ELSE IF u.size = 0
    THEN [response |-> HttpError(400, << "Empty file uploaded" >>),
          scans |-> sc, users |-> us]
    ELSE IF ~validate_image(u).ok
    THEN [response |-> HttpError(400, << validate_image(u).msg >>),
          scans |-> sc, users |-> us]
    ELSE ClassifyAndStore(sc, us, db, user_id, ai, now, fault, "/scan")

\* A base64 body: too short for the request model, wrongly padded, or the
\* encoding of an upload's bytes.
Base64Kinds == {"short", "bad_padding", "encoded"}

\* The decoded bytes of a base64 body are validated under the fixed file
\* name "scan. jpg", as the source spells it.
Base64Upload(u) == [u EXCEPT !.ext = ". jpg"]

\* POST /scan/base64.
scan_waste_base64(sc, us, db, kind, u, user_id, ai, now, fault) ==
    IF kind = "short"
    THEN [response |-> ValidationError(<< "Invalid base64 image data" >>),
          scans |-> sc, users |-> us]
    ELSE IF kind = "bad_padding"
    THEN [response |-> HttpError(400, << "Invalid base64 string: ", "Incorrect padding" >>),
          scans |-> sc, users |-> us]
    ELSE IF ~validate_image(Base64Upload(u)).ok
    THEN [response |-> HttpError(400, << validate_image(Base64Upload(u)).msg >>),
          scans |-> sc, users |-> us]
    ELSE ClassifyAndStore(sc, us, db, user_id, ai, now, fault, "/scan/base64")


(* ------------------------------- inputs ------------------------------- *)
\* What the AI may put under each key of its JSON object; Absent leaves the
\* key out.
Absent == [ty |-> "absent"]

ItemNames == {Absent, Str("Bottle")}
Categories == {Absent, Str("E-Waste"), Str("Paper & Cardboard"), Str("Unknown"),
               Str("Glass"), Null}
Confidences == {Absent, Num(-300), Num(50), Num(90), Num(95), Num(170),
                Str("1.7"), Str("abc"), Null, NaN}
Recyclables == {Absent, Bool(TRUE), Bool(FALSE)}
StepLists == {Absent, List(<< >>), List(<< "Drop it at the depot" >>)}
BinColors == {Absent, Str("PURPLE")}
Impacts == {Absent, Dict(EmptyDict),
            Dict([k \in {"co2_saved_kg"} |-> Num(777)]),
            Dict([k \in {"co2_saved_kg", "decomposition_time"} |->
                    IF k = "co2_saved_kg" THEN Num(777) ELSE Str("3 days")]),
            Str("low")}

FieldOrder == << "item_name", "category", "confidence", "recyclable",
                 "disposal_steps", "bin_color", "environmental_impact" >>

Choices ==
    [item_name : ItemNames, category : Categories, confidence : Confidences,
     recyclable : Recyclables, disposal_steps : StepLists, bin_color : BinColors,
     environmental_impact : Impacts]

\* The choices that leave the optional keys out.
BareChoices ==
    { c \in Choices : /\ c.recyclable = Absent /\ c.disposal_steps = Absent
                      /\ c.bin_color = Absent }

RECURSIVE MemberSeq(_, _)
MemberSeq(c, i) ==
    IF i > Len(FieldOrder) THEN << >>
    ELSE LET rest == MemberSeq(c, i + 1)
             key == FieldOrder[i]
         IN  IF c[key] = Absent THEN rest
             ELSE IF rest = << >> THEN << [k |-> key, v |-> c[key]] >>
                  ELSE << [k |-> key, v |-> c[key]], Ch(",") >> \o rest

\* The JSON text of the object a choice describes.
Payload(c) == << Ch("{") >> \o MemberSeq(c, 1) \o << Ch("}") >>

\* The same object with an item_name that holds a fence marker.
FencedNamePayload(c) ==
    << Ch("{"), [open |-> "item_name"] >> \o Fence \o << CloseQuote >>
    \o (IF MemberSeq(c, 2) = << >> THEN << >> ELSE << Ch(",") >> \o MemberSeq(c, 2))
    \o << Ch("}") >>

\* n characters of prose.
Pad(n) == [i \in 1 .. n |-> Ch("x")]

Wrappers == {"fence_json", "fence", "prose_fence_json", "prose_fence"}

\* Payload J inside a fenced code block.
Wrap(w, J) ==
    CASE w = "fence_json" -> FenceJson \o << Newline >> \o J \o << Newline >> \o Fence
      [] w = "fence" -> Fence \o << Newline >> \o J \o << Newline >> \o Fence
      [] w = "prose_fence_json" ->
           Pad(2) \o << Space >> \o FenceJson \o J \o Fence \o << Space >> \o Pad(1)
      [] OTHER ->
           Pad(2) \o << Newline >> \o Fence \o << Space >> \o J \o Fence \o Pad(1)

\* How far around RawCopyLen the lengths of the long texts range.
MaxPadOver == 2

LongLens == (RawCopyLen - MaxPadOver) .. (RawCopyLen + MaxPadOver)

\* Texts that are no JSON object: prose, a cut-off object, other documents.
OtherTexts ==
    { Pad(n) : n \in {0, 3} \cup LongLens }
    \cup { FenceJson \o Pad(n) \o Fence : n \in {1} \cup LongLens }
    \cup { Payload(c) \o Pad(n) : c \in { d \in BareChoices : d.confidence = Num(95) },
                                 n \in {1} \cup LongLens }
    \cup { PySlice(Payload(c), 0, -1) : c \in { d \in BareChoices : d.confidence = Num(95) } }
    \cup { << [doc |-> Num(7)] >>,
           << [doc |-> List(<< "item_name", "category", "confidence" >>)] >>,
           << [doc |-> List(<< "item_name" >>)] >> }

Inputs ==
    { Payload(c) : c \in Choices }
    \cup { << Newline >> \o Payload(c) \o << Newline >> : c \in BareChoices }
    \cup { Wrap(w, Payload(c)) : w \in Wrappers, c \in BareChoices }
    \cup { FenceJson \o << Newline >> \o Payload(c) : c \in BareChoices }
    \cup { FencedNamePayload(c) : c \in BareChoices }
    \cup { Wrap(w, FencedNamePayload(c)) :
              w \in Wrappers, c \in { d \in BareChoices : d.confidence = Num(95) } }
    \cup OtherTexts

(* ------------------- the reconciler applied to a text ------------------ *)
NoResult == [x \in {} |-> Null]
NoRequest == [route |-> "none"]
NoResponse == [status |-> 0]

ReconcilerInit ==
    /\ ai_text \in Inputs
    /\ result = NoResult
    /\ points = -1
    /\ phase = "received"
    /\ firestore = "up"
    /\ scans = EmptyDict
    /\ users = EmptyDict
    /\ clock = 0
    /\ request = NoRequest
    /\ response = NoResponse
    /\ handled = 0
    /\ environment = "development"
    /\ inflight = NoneInFlight
    /\ codec = NoCodec

\* identify_waste, line 295.
ParseResponse ==
    /\ phase = "received"
    /\ result' = _parse_gemini_response(ai_text)
    /\ phase' = "parsed"
    /\ UNCHANGED <<ai_text, points, codec>>
    /\ UNCHANGED serviceVars

\* identify_waste, line 303.
CalculatePoints ==
    /\ phase = "parsed"
    /\ points' = _calculate_points(result)
    /\ phase' = "scored"
    /\ UNCHANGED <<ai_text, result, codec>>
    /\ UNCHANGED serviceVars

ReconcilerNext == ParseResponse \/ CalculatePoints

ReconcilerSpec == ReconcilerInit /\ [][ReconcilerNext]_vars

(* ------------------------------ the service --------------------------- *)
\* How many requests a behaviour handles, and how far the clock runs.
MaxRequests == 2
MaxClock == 1

FullChoice ==
    [item_name |-> Str("Bottle"), category |-> Str("E-Waste"), confidence |-> Num(95),
     recyclable |-> Bool(TRUE), disposal_steps |-> List(<< "Drop it at the depot" >>),
     bin_color |-> Str("PURPLE"),
     environmental_impact |-> Dict([k \in {"co2_saved_kg"} |-> Num(777)])]

\* The texts the AI returns in the service: complete objects, objects that
\* leave keys out, an object whose co2_saved_kg is a string, and text that is
\* no JSON.
ServiceTexts ==
    { Payload(FullChoice),
      Wrap("fence_json", Payload(FullChoice)),
      Payload([FullChoice EXCEPT !.category = Str("Paper & Cardboard"),
                                 !.confidence = Num(50),
                                 !.recyclable = Bool(FALSE),
                                 !.disposal_steps = Absent,
                                 !.bin_color = Absent,
                                 !.environmental_impact = Absent]),
      Payload([FullChoice EXCEPT !.category = Str("Unknown"),
                                 !.recyclable = Absent,
                                 !.disposal_steps = Absent,
                                 !.bin_color = Absent,
                                 !.environmental_impact = Absent]),
      Payload([FullChoice EXCEPT !.environmental_impact =
                                   Dict([k \in {"co2_saved_kg"} |-> Str("1.5 kg")])]),
      Pad(3) }

AiOutcomes == {AiFails} \cup { AiReturns(t) : t \in ServiceTexts }

Init ==
    /\ ai_text = << >>
    /\ result = NoResult
    /\ points = -1
    /\ phase = "serving"
    /\ firestore \in {"up", "none"}
    /\ scans = EmptyDict
    /\ users = EmptyDict
    /\ clock = 0
    /\ request = NoRequest
    /\ response = NoResponse
    /\ handled = 0
    /\ environment \in {"production", "development"}
    /\ inflight = NoneInFlight
    /\ codec = NoCodec

Answer(req, out) ==
    /\ request' = req
    /\ response' = out.response
    /\ scans' = out.scans
    /\ users' = out.users
    /\ handled' = handled + 1
    /\ UNCHANGED <<firestore, clock, environment, inflight>>
    /\ UNCHANGED reconcilerVars

\* The AI is called on a validated image only, and the store is written only
\* after the AI call returned.
NotCalled == [ok |-> FALSE, called |-> FALSE]
AiSeen(reached) == IF reached THEN AiOutcomes ELSE {NotCalled}
FaultSeen(ai) == IF ai.ok THEN DbFaults ELSE {"none"}
NoUpload == Upload("", "", 0, "", FALSE, 0, 0)

PostScan ==
    /\ handled < MaxRequests
    /\ \E u \in Uploads, user_id \in UserIds :
         \E ai \in AiSeen(StartsWithImage(u.content_type) /\ validate_image(u).ok) :
           \E fault \in FaultSeen(ai) :
             \E out \in {scan_waste_image(scans, users, firestore, u, user_id, ai,
                                          clock, fault)} :
               Answer([route |-> "/scan", upload |-> u, user_id |-> user_id,
                       ai |-> ai, fault |-> fault], out)

PostScanBase64 ==
    /\ handled < MaxRequests
    /\ \E kind \in Base64Kinds, user_id \in UserIds :
         \E u \in IF kind = "encoded" THEN { Base64Upload(x) : x \in Uploads }
                   ELSE {NoUpload} :
           \E ai \in AiSeen(kind = "encoded" /\ validate_image(u).ok) :
             \E fault \in FaultSeen(ai) :
               \E out \in {scan_waste_base64(scans, users, firestore, kind, u, user_id,
                                             ai, clock, fault)} :
                 Answer([route |-> "/scan/base64", base64 |-> kind, upload |-> u,
                         user_id |-> user_id, ai |-> ai, fault |-> fault], out)

\* A second passes.
Tick ==
    /\ clock < MaxClock
    /\ clock' = clock + 1
    /\ UNCHANGED <<firestore, scans, users, request, response, handled, environment,
                   inflight>>
    /\ UNCHANGED reconcilerVars

Next == PostScan \/ PostScanBase64 \/ Tick

Spec == Init /\ [][Next]_vars

(* ------------------------------- base64 ------------------------------- *)
\* A base64 text is a sequence of symbols: B64(n) is the alphabet character
\* of value n (0 .. 63), PadChar is "=", any other symbol is outside the
\* alphabet.  Bytes are a sequence of numbers 0 .. 255.
B64(n) == [b64 |-> n]
PadChar == Ch("=")
Comma == Ch(",")
IsB64(ch) == "b64" \in DOMAIN ch

\* base64.b64encode(image_data).decode('utf-8').
RECURSIVE b64encode(_)
b64encode(b) ==
    IF Len(b) = 0 THEN << >>
    ELSE IF Len(b) = 1
    THEN << B64(b[1] \div 4), B64((b[1] % 4) * 16), PadChar, PadChar >>
    ELSE IF Len(b) = 2
    THEN << B64(b[1] \div 4), B64((b[1] % 4) * 16 + b[2] \div 16),
            B64((b[2] % 16) * 4), PadChar >>
    ELSE << B64(b[1] \div 4), B64((b[1] % 4) * 16 + b[2] \div 16),
            B64((b[2] % 16) * 4 + b[3] \div 64), B64(b[3] % 64) >>
         \o b64encode(SubSeq(b, 4, Len(b)))

\* base64.b64decode(s) without validate: characters outside the alphabet are
\* skipped, a pad that completes a quad ends the input, other pads are
\* skipped, and an incomplete quad at the end raises.  quad_pos is the
\* position in the quad, leftchar the bits not yet written, pads the pads
\* seen since the last alphabet character.
RECURSIVE b64decodeFrom(_, _, _, _, _, _)
b64decodeFrom(s, i, quad_pos, leftchar, pads, out) ==
    IF i > Len(s)
    THEN IF quad_pos # 0 THEN Raise("binascii.Error") ELSE Return(out)
    ELSE IF s[i] = PadChar
    THEN IF quad_pos >= 2 /\ quad_pos + pads + 1 >= 4 THEN Return(out)
         ELSE b64decodeFrom(s, i + 1, quad_pos, leftchar,
                            IF quad_pos >= 2 THEN pads + 1 ELSE pads, out)
    ELSE IF ~IsB64(s[i])
    THEN b64decodeFrom(s, i + 1, quad_pos, leftchar, pads, out)
    ELSE CASE quad_pos = 0 ->
                b64decodeFrom(s, i + 1, 1, s[i].b64, 0, out)
           [] quad_pos = 1 ->
                b64decodeFrom(s, i + 1, 2, s[i].b64 % 16, 0,
                              Append(out, leftchar * 4 + s[i].b64 \div 16))
           [] quad_pos = 2 ->
                b64decodeFrom(s, i + 1, 3, s[i].b64 % 4, 0,
                              Append(out, leftchar * 16 + s[i].b64 \div 4))
           [] OTHER ->
                b64decodeFrom(s, i + 1, 0, 0, 0,
                              Append(out, leftchar * 64 + s[i].b64))

b64decode(s) == b64decodeFrom(s, 1, 0, 0, 0, << >>)

\* The string as it is, prefix included.
AfterFirstComma_Kept(s, i) == s

\* base64_string.split(',', 1)[1] when ',' is in the string.
RECURSIVE AfterFirstComma(_, _)
AfterFirstComma(s, i) ==
    IF i > Len(s) THEN s
    ELSE IF s[i] = Comma THEN SubSeq(s, i + 1, Len(s))
    ELSE AfterFirstComma(s, i + 1)

\* ImageProcessor.to_base64.
to_base64(image_data) == b64encode(image_data)

\* ImageProcessor.from_base64: every exception becomes ValueError.
from_base64(base64_string) ==
    IF b64decode(AfterFirstComma(base64_string, 1)).ok
    THEN b64decode(AfterFirstComma(base64_string, 1))
    ELSE Raise("ValueError")

\* The texts and the bytes converted: texts with and without a data-URL
\* prefix, whose payload is up to MaxB64Len characters (alphabet characters
\* and line breaks) and up to two pads; bytes up to MaxBytesLen long.
MaxB64Len == 4
MaxBytesLen == 3

RECURSIVE SeqsUpTo(_, _)
SeqsUpTo(S, n) ==
    IF n = 0 THEN { << >> }
    ELSE SeqsUpTo(S, n - 1)
         \cup { Append(q, x) : q \in { r \in SeqsUpTo(S, n - 1) : Len(r) = n - 1 }, x \in S }

B64Bodies == SeqsUpTo({B64(16), B64(17), B64(20), Newline}, MaxB64Len)
B64Payloads ==
    { body \o pad : body \in B64Bodies,
                    pad \in { << >>, << PadChar >>, << PadChar, PadChar >> } }
DataUrlPrefix == << B64(29), Ch(";") >>
B64Texts == B64Payloads \cup { DataUrlPrefix \o << Comma >> \o t : t \in B64Payloads }
ByteStrings == SeqsUpTo({0, 65, 255}, MaxBytesLen)

Text(t) == [text |-> t]
Bytes(b) == [bytes |-> b]
Failed(e) == [error |-> e]

CodecInit ==
    /\ ai_text = << >>
    /\ result = NoResult
    /\ points = -1
    /\ phase = "codec"
    /\ firestore = "none"
    /\ scans = EmptyDict
    /\ users = EmptyDict
    /\ clock = 0
    /\ request = NoRequest
    /\ response = NoResponse
    /\ handled = 0
    /\ environment = "development"
    /\ inflight = NoneInFlight
    /\ codec \in { [input |-> x, now |-> x, steps |-> 0] :
                   x \in { Text(t) : t \in B64Texts } \cup { Bytes(b) : b \in ByteStrings } }

\* How many conversions are applied to an input: there and back.
RoundTrip == 2

FromBase64 ==
    /\ codec.steps < RoundTrip
    /\ "text" \in DOMAIN codec.now
    /\ codec' = [codec EXCEPT !.steps = @ + 1,
                              !.now = IF from_base64(codec.now.text).ok
                                      THEN Bytes(from_base64(codec.now.text).v)
                                      ELSE Failed(from_base64(codec.now.text).exc)]
    /\ UNCHANGED <<ai_text, result, points, phase>>
    /\ UNCHANGED serviceVars

ToBase64 ==
    /\ codec.steps < RoundTrip
    /\ "bytes" \in DOMAIN codec.now
    /\ codec' = [codec EXCEPT !.steps = @ + 1, !.now = Text(to_base64(codec.now.bytes))]
    /\ UNCHANGED <<ai_text, result, points, phase>>
    /\ UNCHANGED serviceVars

CodecNext == FromBase64 \/ ToBase64

CodecSpec == CodecInit /\ [][CodecNext]_vars

(* --------------- scans stored by two server processes ----------------- *)
\* save_scan_to_database and update_user_stats talk to the store in three
\* calls: set the scan document, get the user's document, update (or set)
\* the user's document.  Inside one process nothing runs between the calls
\* (no await separates them); another process sharing the store can run
\* between any two of them.

\* The scan results the processes store: 110 points and 50 points.
RaceResults ==
    { identify_waste(AiReturns(t), 0) :
        t \in { Payload(FullChoice),
                Payload([FullChoice EXCEPT !.category = Str("Paper & Cardboard"),
                                           !.confidence = Num(50),
                                           !.recyclable = Bool(FALSE)]) } }

\* The user the racing scans carry, and the statistics stored for the user
\* before them.
RaceUser == "u1"
RaceStart ==
    { EmptyDict,
      [u \in {RaceUser} |-> [total_scans |-> 3, total_points |-> 190,
                             co2_saved_kg |-> Num(150), level |-> 1]] }

\* user_doc = user_ref.get(): what the process holds of the user's document.
UserDoc(us, user_id) ==
    IF user_id \in DOMAIN us THEN [exists |-> TRUE, data |-> us[user_id]]
    ELSE [exists |-> FALSE]

\* The collection a process believes in after its get.
AsRead(user_id, user_doc) ==
    IF user_doc.exists THEN [u \in {user_id} |-> user_doc.data] ELSE EmptyDict

\* The same write as an atomic increment of what is stored.
WriteStats_Atomic(us, user_id, user_doc, scan_data) ==
    update_user_stats(us, user_id, scan_data, "none")

\* user_ref.update({...}) or user_ref.set({...}) with the values computed
\* from user_doc: the users collection afterwards.  Nothing is written when
\* computing the values raised.
WriteStats(us, user_id, user_doc, scan_data) ==
    LET computed == update_user_stats(AsRead(user_id, user_doc), user_id, scan_data, "none")
    IN  IF computed = AsRead(user_id, user_doc) THEN us
        ELSE [u \in DOMAIN us \cup {user_id} |->
                IF u = user_id THEN computed[user_id] ELSE us[u]]

RaceInit ==
    /\ ai_text = << >>
    /\ result = NoResult
    /\ points = -1
    /\ phase = "serving"
    /\ firestore = "up"
    /\ scans = EmptyDict
    /\ users \in RaceStart
    /\ clock = 0
    /\ request = NoRequest
    /\ response = NoResponse
    /\ handled = 0
    /\ environment \in {"production", "development"}
    /\ inflight = NoneInFlight
    /\ codec = NoCodec

\* db.collection(WASTE_SCANS).document(scan_id).set(document), line 154.
SetScan(p) ==
    /\ inflight[p].pc = "idle"
    /\ \E scan_data \in RaceResults :
         /\ scans' = DictSet(scans, ScanId(clock, RaceUser),
                             ScanDocument(scan_data, RaceUser, clock))
         /\ inflight' = [inflight EXCEPT ![p] = [pc |-> "get", scan_data |-> scan_data]]
    /\ UNCHANGED <<firestore, users, clock, request, response, handled, environment>>
    /\ UNCHANGED reconcilerVars

\* user_doc = user_ref.get(), line 182.
GetUserDoc(p) ==
    /\ inflight[p].pc = "get"
    /\ inflight' = [inflight EXCEPT ![p] =
                      [pc |-> "write", scan_data |-> inflight[p].scan_data,
                       user_doc |-> UserDoc(users, RaceUser)]]
    /\ UNCHANGED <<firestore, scans, users, clock, request, response, handled,
                   environment>>
    /\ UNCHANGED reconcilerVars

\* user_ref.update(...), line 189, or user_ref.set(...), line 199; the
\* scan is stored and the route goes on to answer.
PutUserDoc(p) ==
    /\ inflight[p].pc = "write"
    /\ users' = WriteStats(users, RaceUser, inflight[p].user_doc, inflight[p].scan_data)
    /\ inflight' = [inflight EXCEPT ![p] =
                      [pc |-> "stored", scan_data |-> inflight[p].scan_data,
                       user_doc |-> inflight[p].user_doc, order |-> handled + 1]]
    /\ handled' = handled + 1
    /\ UNCHANGED <<firestore, scans, clock, request, response, environment>>
    /\ UNCHANGED reconcilerVars

RaceNext == (\E p \in Processes : SetScan(p) \/ GetUserDoc(p) \/ PutUserDoc(p)) \/ Tick

RaceSpec == RaceInit /\ [][RaceNext]_vars

(* ------------------- the routes that read the store ------------------- *)
\* settings.LEVEL_THRESHOLDS: level -> points needed.
LEVEL_THRESHOLDS == << 0, 200, 500, 1000, 2000, 5000, 10000 >>

\* The same scan without reverse=True: the first level whose threshold fits.
LevelFrom_Ascending(lvl, total_points) == 1

\* for lvl, threshold in sorted(LEVEL_THRESHOLDS.items(), reverse=True):
\*     if total_points >= threshold: level = lvl; break
\* scanned from level lvl downwards; level stays 1 when nothing matches.
RECURSIVE LevelFrom(_, _)
LevelFrom(lvl, total_points) ==
    IF lvl = 0 THEN 1
    ELSE IF total_points >= LEVEL_THRESHOLDS[lvl] THEN lvl
    ELSE LevelFrom(lvl - 1, total_points)

\* for lvl in sorted(LEVEL_THRESHOLDS.keys()):
\*     if lvl > level: next_level_points = LEVEL_THRESHOLDS[lvl] - total_points; break
\* scanned from level lvl upwards; None when no level is above.
RECURSIVE NextLevelPointsFrom(_, _, _)
NextLevelPointsFrom(lvl, level, total_points) ==
    IF lvl > Len(LEVEL_THRESHOLDS) THEN Null
    ELSE IF lvl > level THEN Num(LEVEL_THRESHOLDS[lvl] - total_points)
    ELSE NextLevelPointsFrom(lvl + 1, level, total_points)

\* The stats dict of the answer: the stored document with level and
\* next_level_points set.
StatsOf(doc, level) ==
    [total_scans |-> doc.total_scans, total_points |-> doc.total_points,
     co2_saved_kg |-> doc.co2_saved_kg, level |-> level,
     next_level_points |-> NextLevelPointsFrom(1, level, doc.total_points)]

\* What a read of the store does during one request: it answers, or the
\* client raises.
ReadFaults == {"none", "get_raises"}
StoreException == "503 The service is currently unavailable."

\* GET /stats/{user_id}.
get_user_stats(us, db, user_id, fault) ==
    IF db = "none" THEN HttpError(503, << "Database service unavailable" >>)
    ELSE IF fault = "get_raises" THEN HttpError(500, << StoreException >>)
    ELSE IF user_id \notin DOMAIN us THEN HttpError(404, << "User not found" >>)
    ELSE [status |-> 200,
          body |-> [success |-> TRUE, user_id |-> user_id,
                    stats |-> StatsOf(us[user_id],
                                      LevelFrom(Len(LEVEL_THRESHOLDS),
                                                us[user_id].total_points))]]

\* The same route without the ownership check.
delete_scan_NoOwnerCheck(sc, db, scan_id, user_id, fault) ==
    IF db = "none" \/ fault = "get_raises" \/ scan_id \notin DOMAIN sc
    THEN [response |-> HttpError(404, << "Scan not found" >>), scans |-> sc]
    ELSE [response |-> [status |-> 200,
                        body |-> [success |-> TRUE,
                                  message |-> "Scan deleted successfully",
                                  scan_id |-> scan_id]],
          scans |-> [i \in DOMAIN sc \ {scan_id} |-> sc[i]]]

\* The same route removing every record of the user.
delete_scan_AllOfUser(sc, db, scan_id, user_id, fault) ==
    IF db = "none" \/ fault = "get_raises" \/ scan_id \notin DOMAIN sc
    THEN [response |-> HttpError(404, << "Scan not found" >>), scans |-> sc]
    ELSE IF sc[scan_id].user_id # user_id
    THEN [response |-> HttpError(403, << "Not authorized to delete this scan" >>),
          scans |-> sc]
    ELSE [response |-> [status |-> 200,
                        body |-> [success |-> TRUE,
                                  message |-> "Scan deleted successfully",
                                  scan_id |-> scan_id]],
          scans |-> [i \in { j \in DOMAIN sc : sc[j].user_id # user_id } |-> sc[i]]]

\* DELETE /scan/{scan_id}?user_id=: the response and the collection afterwards.
delete_scan(sc, db, scan_id, user_id, fault) ==
    IF db = "none"
    THEN [response |-> HttpError(503, << "Database service unavailable" >>), scans |-> sc]
    ELSE IF fault = "get_raises"
    THEN [response |-> HttpError(500, << StoreException >>), scans |-> sc]
    ELSE IF scan_id \notin DOMAIN sc
    THEN [response |-> HttpError(404, << "Scan not found" >>), scans |-> sc]
    ELSE IF sc[scan_id].user_id # user_id
    THEN [response |-> HttpError(403, << "Not authorized to delete this scan" >>),
          scans |-> sc]
    ELSE [response |-> [status |-> 200,
                        body |-> [success |-> TRUE,
                                  message |-> "Scan deleted successfully",
                                  scan_id |-> scan_id]],
          scans |-> [i \in DOMAIN sc \ {scan_id} |-> sc[i]]]

\* The names the module of the routes binds by its imports.
ModuleImports ==
    {"APIRouter", "File", "UploadFile", "HTTPException", "Depends", "Request", "Form",
     "JSONResponse", "Optional", "Dict", "Any", "List", "BaseModel", "Field",
     "validator", "datetime", "logging", "Limiter", "get_remote_address", "settings",
     "get_gemini_service", "get_image_processor", "validate_uploaded_file",
     "get_firestore_client", "FirestoreCollections"}

\* .where("user_id", "==", user_id).order_by("timestamp", DESCENDING): the
\* ids of the user's documents, newest first.
RECURSIVE NewestFirst(_, _)
NewestFirst(sc, ids) ==
    IF ids = {} THEN << >>
    ELSE LET newest == CHOOSE i \in ids : \A j \in ids : sc[j].timestamp <= sc[i].timestamp
         IN  << newest >> \o NewestFirst(sc, ids \ {newest})

\* .limit(limit).offset(offset).stream(): offset documents are skipped, then
\* at most limit are returned, each with its id.
HistoryQuery(sc, user_id, limit, offset) ==
    LET ordered == NewestFirst(sc, { i \in DOMAIN sc : sc[i].user_id = user_id })
        last == IF offset + limit < Len(ordered) THEN offset + limit ELSE Len(ordered)
    IN  [n \in 1 .. (IF last > offset THEN last - offset ELSE 0) |->
           [id |-> ordered[offset + n], data |-> sc[ordered[offset + n]]]]

\* GET /history/{user_id}?limit=&offset=.  The query names
\* firestore.Query.DESCENDING, and evaluating a name the module does not
\* bind raises NameError, which the route's `except Exception` makes a 500.
get_scan_history(sc, db, user_id, limit, offset) ==
    IF db = "none" THEN HttpError(503, << "Database service unavailable" >>)
    ELSE IF "firestore" \notin ModuleImports
    THEN HttpError(500, << "name 'firestore' is not defined" >>)
    ELSE [status |-> 200,
          body |-> [success |-> TRUE, user_id |-> user_id,
                    scans |-> HistoryQuery(sc, user_id,
                                           IF limit > 100 THEN 100 ELSE limit, offset),
                    count |-> Len(HistoryQuery(sc, user_id,
                                               IF limit > 100 THEN 100 ELSE limit, offset)),
                    limit |-> IF limit > 100 THEN 100 ELSE limit,
                    offset |-> offset]]

\* {**a, **b}: the keys of both, b's value where both have the key.
DictMerge(a, b) == [k \in DOMAIN a \cup DOMAIN b |-> IF k \in DOMAIN b THEN b[k] ELSE a[k]]

\* What the AI answers to the prompt for facts: the call raises, or it
\* returns a text; json.loads of the text raises or gives a value.
NoSupplement == [ok |-> FALSE, called |-> FALSE]
Supplements ==
    { Raise("429 quota exceeded for project wastewise"),
      Return(Raise("JSONDecodeError")),
      Return(Return(List(<< "fact 1" >>))),
      Return(Return(Dict([k \in {"facts", "global_impact", "did_you_know"} |->
                            IF k = "facts" THEN List(<< "fact 1", "fact 2", "fact 3" >>)
                            ELSE Str("one sentence")]))),
      Return(Return(Dict([k \in {"facts", "bin_color"} |->
                            IF k = "facts" THEN List(<< "fact 1" >>)
                            ELSE Str("any recycling bin")]))),
      Return(Return(Dict([k \in {"facts"} |-> Dict(EmptyDict)]))) }

\* GeminiService.get_educational_content: the content dict.  Every
\* exception of the try block, `**` of a value that is no dict included,
\* gives the guide alone.
EducationalContent(category, supplement) ==
    IF category \notin DOMAIN WASTE_DISPOSAL_GUIDES
    THEN [k \in {"error"} |-> Str("Category not found")]
    ELSE IF supplement.ok /\ supplement.v.ok /\ supplement.v.v.ty = "dict"
    THEN DictSet(DictMerge(WASTE_DISPOSAL_GUIDES[category], supplement.v.v.d),
                 "category", Str(category))
    ELSE DictSet(WASTE_DISPOSAL_GUIDES[category], "category", Str(category))

\* EducationalContentResponse(**content): whether the model accepts the dict.
EducationalContentResponseAccepts(content) ==
    /\ {"category", "bin_color", "instructions", "examples", "co2_saved_per_kg",
        "decomposition_time"} \subseteq DOMAIN content
    /\ content["category"].ty = "str"
    /\ content["bin_color"].ty = "str"
    /\ content["instructions"].ty = "list"
    /\ content["examples"].ty = "list"
    /\ content["co2_saved_per_kg"].ty = "num"
    /\ content["decomposition_time"].ty = "str"
    /\ DictGet(content, "facts", Null).ty \in {"list", "null"}
    /\ DictGet(content, "global_impact", Null).ty \in {"str", "null"}
    /\ DictGet(content, "did_you_know", Null).ty \in {"str", "null"}

\* The fields of EducationalContentResponse, with their defaults.
EducationalContentResponse(content) ==
    [success |-> DictGet(content, "success", Bool(TRUE)),
     category |-> content["category"],
     bin_color |-> content["bin_color"],
     instructions |-> content["instructions"],
     examples |-> content["examples"],
     co2_saved_per_kg |-> content["co2_saved_per_kg"],
     decomposition_time |-> content["decomposition_time"],
     facts |-> DictGet(content, "facts", List(<< >>)),
     global_impact |-> DictGet(content, "global_impact", Null),
     did_you_know |-> DictGet(content, "did_you_know", Null)]

\* The route from the content dict on.
EducationAnswer(content) ==
    IF "error" \in DOMAIN content /\ Truthy(content["error"])
    THEN HttpError(404, << "Educational content not found" >>)
    ELSE IF EducationalContentResponseAccepts(content)
    THEN [status |-> 200, body |-> EducationalContentResponse(content)]
    ELSE HttpError(500, << "validation error for EducationalContentResponse" >>)

InCategories(category) == \E i \in DOMAIN WASTE_CATEGORIES : WASTE_CATEGORIES[i] = category

\* GET /education/{category}.
get_educational_content(category, supplement) ==
    IF ~InCategories(category)
    THEN HttpError(404, << "Category '", category,
                           "' not found. Use /categories to see valid categories." >>)
    ELSE EducationAnswer(EducationalContent(category, supplement))

(* --------------------- the service over a filled store ----------------- *)
\* The points a stored user may have: around every threshold, and beyond.
TotalPoints ==
    {0, 50, 199, 200, 201, 499, 500, 999, 1000, 1999, 2000, 2001, 4999, 5000,
     9999, 10000, 10001, 25000}

\* A document of waste_scans as save_scan_to_database wrote it at second t
\* (seconds count from the start of the behaviour) for user u.
StoredScan(t, u) ==
    [scan_id |-> ScanId(t, u), user_id |-> u, item_name |-> Str("Bottle"),
     category |-> Str("E-Waste"), confidence |-> Num(95), recyclable |-> Bool(TRUE),
     points_earned |-> Num(110), timestamp |-> t]

StoredIds == {ScanId(-2, "u1"), ScanId(-1, "u1"), ScanId(-1, "u2")}
StoredScans == { [i \in ids |-> StoredScan(i.t, i.u)] : ids \in SUBSET StoredIds }

\* A document of users as update_user_stats wrote it: level stays as created.
StoredUsers ==
    {EmptyDict}
    \cup { [u \in {"u1"} |-> [total_scans |-> 2, total_points |-> p,
                              co2_saved_kg |-> Num(150), level |-> 1]] :
           p \in TotalPoints }

ApiInit ==
    /\ ai_text = << >>
    /\ result = NoResult
    /\ points = -1
    /\ phase = "serving"
    /\ firestore \in {"up", "none"}
    /\ scans \in IF firestore = "up" THEN StoredScans ELSE {EmptyDict}
    /\ users \in IF firestore = "up" THEN StoredUsers ELSE {EmptyDict}
    /\ clock = 0
    /\ request = NoRequest
    /\ response = NoResponse
    /\ handled = 0
    /\ environment \in {"production", "development"}
    /\ inflight = NoneInFlight
    /\ codec = NoCodec

ApiAnswer(req, resp, sc) ==
    /\ request' = req
    /\ response' = resp
    /\ scans' = sc
    /\ handled' = handled + 1
    /\ UNCHANGED <<firestore, users, clock, environment, inflight>>
    /\ UNCHANGED reconcilerVars

\* The store is read only when there is a client.
ReadFaultSeen == IF firestore = "up" THEN ReadFaults ELSE {"none"}

KnownUsers == {"u1", "u2"}

GetUserStats ==
    /\ handled < MaxRequests
    /\ \E user_id \in KnownUsers, fault \in ReadFaultSeen :
         ApiAnswer([route |-> "/stats", user_id |-> user_id, fault |-> fault],
                   get_user_stats(users, firestore, user_id, fault), scans)

DeleteScan ==
    /\ handled < MaxRequests
    /\ \E scan_id \in StoredIds \cup {ScanId(-3, "u1")}, user_id \in KnownUsers,
          fault \in ReadFaultSeen :
         \E out \in {delete_scan(scans, firestore, scan_id, user_id, fault)} :
           ApiAnswer([route |-> "/scan/delete", scan_id |-> scan_id,
                      user_id |-> user_id, fault |-> fault],
                     out.response, out.scans)

HistoryLimits == {1, 20, 150}
HistoryOffsets == {0, 1}

GetScanHistory ==
    /\ handled < MaxRequests
    /\ \E user_id \in KnownUsers, limit \in HistoryLimits, offset \in HistoryOffsets :
         ApiAnswer([route |-> "/history", user_id |-> user_id, limit |-> limit,
                    offset |-> offset],
                   get_scan_history(scans, firestore, user_id, limit, offset), scans)

EducationCategories ==
    { WASTE_CATEGORIES[i] : i \in DOMAIN WASTE_CATEGORIES } \cup {"Glass"}

GetEducation ==
    /\ handled < MaxRequests
    /\ \E category \in EducationCategories :
         \E supplement \in IF category \in DOMAIN WASTE_DISPOSAL_GUIDES
                            THEN Supplements ELSE {NoSupplement} :
           ApiAnswer([route |-> "/education", category |-> category,
                      supplement |-> supplement],
                     get_educational_content(category, supplement), scans)

ApiNext == GetUserStats \/ DeleteScan \/ GetScanHistory \/ GetEducation

ApiSpec == ApiInit /\ [][ApiNext]_vars


(* ===================== properties of the reconciler =================== *)
CategorySet == { Str(c) : c \in SeqRange(WASTE_CATEGORIES) }

Returned == phase \in {"parsed", "scored"}

\* The object json.loads made of the AI text, when it made one.
AiParses == JsonLoads(ExtractJson(ai_text)).ok
AiIsObject == AiParses /\ JsonLoads(ExtractJson(ai_text)).v.ty = "dict"
AiObject == JsonLoads(ExtractJson(ai_text)).v.d
AiSupplies(key) == AiIsObject /\ key \in DOMAIN AiObject
AiHasRequired ==
    AiIsObject /\ \A i \in 1 .. Len(required_fields) : required_fields[i] \in DOMAIN AiObject

\* The result is the reconciled AI object, not the fallback dict.
NotFallback == Returned /\ "raw_ai_response" \notin DOMAIN result

\* C1: every returned result has a category of the fixed 8-entry set, on the
\* parsed path and on the fallback path; when the AI's category is not in
\* the set, the returned category is "Unknown".
C1_CategoryInSet ==
    Returned =>
      /\ "category" \in DOMAIN result
      /\ result["category"] \in CategorySet
      /\ Cardinality(CategorySet) = 8
      /\ (AiSupplies("category") /\ AiObject["category"] \notin CategorySet)
            => result["category"] = Str("Unknown")

C1_Witness ==
    /\ NotFallback
    /\ AiObject["category"] = Str("Glass")
    /\ result["category"] = Str("Unknown")
    /\ result["item_name"] = Str("Bottle")

\* C2 (as claimed): for every AI text the returned confidence lies in
\* [0.0, 1.0], and a numeric raw confidence comes back as 1.0 when above 1,
\* as 0.0 when below 0, and unchanged otherwise.
C2_ConfidenceClampedAlways ==
    Returned =>
      /\ result["confidence"].ty = "num"
      /\ 0 <= result["confidence"].n /\ result["confidence"].n <= 100
      /\ (AiSupplies("confidence") /\ AiObject["confidence"].ty = "num") =>
           LET raw == AiObject["confidence"].n
           IN  result["confidence"].n =
                 (IF raw > 100 THEN 100 ELSE IF raw < 0 THEN 0 ELSE raw)

\* C2 (amended): for every AI text the returned confidence lies in
\* [0.0, 1.0]; when the reconciler returns the reconciled AI object and not
\* the fallback result, a numeric raw confidence comes back as 1.0 when
\* above 1, as 0.0 when below 0, and unchanged otherwise.
C2_ConfidenceClamped ==
    Returned =>
      /\ "confidence" \in DOMAIN result
      /\ result["confidence"].ty = "num"
      /\ 0 <= result["confidence"].n /\ result["confidence"].n <= 100
      /\ (NotFallback /\ AiObject["confidence"].ty = "num") =>
           LET raw == AiObject["confidence"].n
           IN  result["confidence"].n =
                 (IF raw > 100 THEN 100 ELSE IF raw < 0 THEN 0 ELSE raw)

C2_Witness ==
    /\ NotFallback
    /\ AiObject["confidence"] = Num(-300)
    /\ result["confidence"] = Num(0)

\* C3 (as claimed): an object with item_name, category and confidence whose
\* confidence float() rejects is returned with confidence 0.5.
C3_NonNumericDefaultsToHalf ==
    (Returned /\ AiHasRequired /\ ~PyFloat(AiObject["confidence"]).ok)
      => result["confidence"] = Num(50)

\* C4 (as claimed): text that is no JSON object yields the fixed fallback
\* result, whose raw_ai_response is the first 500 characters of the raw text.
C4_FallbackCopiesRawText ==
    (Returned /\ ~AiIsObject) =>
      /\ result["item_name"] = Str("Unknown Item")
      /\ result["category"] = Str("Unknown")
      /\ result["confidence"] = Num(30)
      /\ result["bin_color"] = Str("GREY")
      /\ result["environmental_impact"].d["co2_saved_kg"] = Num(0)
      /\ Len(result["raw_ai_response"].t) <= RawCopyLen
      /\ result["raw_ai_response"] = RawStr(PySlice(ai_text, 0, RawCopyLen))

\* C5: text that parses but lacks item_name, category or confidence is
\* answered with the fallback result of a parse failure; no parsed field
\* survives.
C5_MissingFieldFallsBack ==
    (Returned /\ AiParses /\ ~AiHasRequired) =>
      /\ result = _create_fallback_response(ExtractJson(ai_text))
      /\ result["item_name"] = Str("Unknown Item")
      /\ result["category"] = Str("Unknown")
      /\ result["confidence"] = Num(30)
      /\ result["bin_color"] = Str("GREY")
      /\ result["recyclable"] = Bool(FALSE)
      /\ "examples" \notin DOMAIN result

C5_Witness ==
    /\ Returned
    /\ AiIsObject
    /\ ~AiSupplies("item_name")
    /\ AiSupplies("category") /\ AiObject["category"] = Str("E-Waste")
    /\ AiSupplies("confidence") /\ AiObject["confidence"] = Num(95)
    /\ AiSupplies("bin_color")
    /\ result["bin_color"] = Str("GREY")

\* C6 (as claimed): for every JSON payload J, the result for J inside a
\* fenced code block equals the result for J itself.
C6_WrappedEqualsUnwrapped ==
    (Returned /\ JsonLoads(ai_text).ok) =>
      \A w \in Wrappers : _parse_gemini_response(Wrap(w, ai_text)) = result

\* C6 (amended): for every JSON payload J, the result for J inside a fenced
\* code block equals the result for J itself in every field but
\* raw_ai_response, the copy of the extracted text that only the fallback
\* result has; for a J that holds no fence marker that copy is the first 500
\* characters of J without its surrounding whitespace when J was fenced,
\* and of J as given otherwise.
C6_WrappedEqualsUnwrappedButRawCopy ==
    (Returned /\ JsonLoads(ai_text).ok) =>
      \A w \in Wrappers :
        LET wrapped == _parse_gemini_response(Wrap(w, ai_text))
        IN  IF NotFallback THEN wrapped = result
            ELSE /\ "raw_ai_response" \in DOMAIN wrapped
                 /\ DictSet(wrapped, "raw_ai_response", Null)
                      = DictSet(result, "raw_ai_response", Null)
                 /\ ~PyContains(ai_text, Fence) =>
                      /\ result["raw_ai_response"]
                           = RawStr(PySlice(ai_text, 0, RawCopyLen))
                      /\ wrapped["raw_ai_response"]
                           = RawStr(PySlice(PyStrip(ai_text), 0, RawCopyLen))

C6_Witness ==
    /\ NotFallback
    /\ JsonLoads(ai_text).ok /\ ~PyContains(ai_text, Fence)
    /\ result["category"] = Str("E-Waste")
    /\ result["bin_color"] = Str("PURPLE")
    /\ _parse_gemini_response(Wrap("prose_fence_json", ai_text)) = result

\* C7: points_earned is 50, plus 10 when confidence >= 0.9, plus 20 when
\* recyclable is true, plus 30 when the category is "Hazardous Waste" or
\* "E-Waste"; the bonuses add up independently, without a cap, and the
\* result is never negative.
C7_PointsFormula ==
    phase = "scored" =>
      LET high == result["confidence"].n >= 90
          recyclable == "recyclable" \in DOMAIN result /\ result["recyclable"] = Bool(TRUE)
          difficult == result["category"] \in {Str("Hazardous Waste"), Str("E-Waste")}
      IN  /\ points = 50 + (IF high THEN 10 ELSE 0) + (IF recyclable THEN 20 ELSE 0)
                         + (IF difficult THEN 30 ELSE 0)
          /\ points >= 0
          /\ (high /\ recyclable /\ difficult) => points = 110
          /\ (~high /\ ~recyclable /\ ~difficult) => points = 50

C7_Witness ==
    /\ phase = "scored"
    /\ result["confidence"] = Num(95)
    /\ "recyclable" \in DOMAIN result
    /\ result["recyclable"] = Bool(TRUE)
    /\ result["category"] = Str("E-Waste")
    /\ points = 110

\* C8 (as claimed): a disposal_steps, a bin_color, and a co2_saved_kg or
\* decomposition_time inside environmental_impact that the AI object
\* supplies are returned as the AI gave them.
C8_AiValuesAlwaysWin ==
    Returned =>
      /\ AiSupplies("disposal_steps")
            => result["disposal_steps"] = AiObject["disposal_steps"]
      /\ AiSupplies("bin_color") => result["bin_color"] = AiObject["bin_color"]
      /\ (AiSupplies("environmental_impact")
            /\ AiObject["environmental_impact"].ty = "dict") =>
           \A key \in {"co2_saved_kg", "decomposition_time"} :
              key \in DOMAIN AiObject["environmental_impact"].d =>
                 /\ result["environmental_impact"].ty = "dict"
                 /\ key \in DOMAIN result["environmental_impact"].d
                 /\ result["environmental_impact"].d[key]
                      = AiObject["environmental_impact"].d[key]

\* C8 (amended): when the reconciler returns the reconciled AI object and
\* not the fallback result, a disposal_steps list the AI supplied that holds
\* steps, a bin_color it supplied, and a co2_saved_kg or decomposition_time
\* it supplied inside environmental_impact are returned as the AI gave them,
\* never replaced by the static guide's value.
C8_AiValuesWin ==
    NotFallback =>
      /\ (AiSupplies("disposal_steps") /\ Truthy(AiObject["disposal_steps"]))
            => result["disposal_steps"] = AiObject["disposal_steps"]
      /\ AiSupplies("bin_color") => result["bin_color"] = AiObject["bin_color"]
      /\ (AiSupplies("environmental_impact")
            /\ AiObject["environmental_impact"].ty = "dict") =>
           \A key \in {"co2_saved_kg", "decomposition_time"} :
              key \in DOMAIN AiObject["environmental_impact"].d =>
                 result["environmental_impact"].d[key]
                    = AiObject["environmental_impact"].d[key]

C8_Witness ==
    /\ NotFallback
    /\ result["category"] = Str("E-Waste")
    /\ "examples" \in DOMAIN result
    /\ AiSupplies("disposal_steps") /\ Truthy(AiObject["disposal_steps"])
    /\ AiSupplies("bin_color")
    /\ AiSupplies("environmental_impact")
    /\ DOMAIN AiObject["environmental_impact"].d = {"co2_saved_kg"}
    /\ result["bin_color"] = Str("PURPLE")
    /\ result["bin_color"] # WASTE_DISPOSAL_GUIDES["E-Waste"]["bin_color"]
    /\ result["environmental_impact"].d["co2_saved_kg"] = Num(777)
    /\ result["environmental_impact"].d["decomposition_time"]
         = WASTE_DISPOSAL_GUIDES["E-Waste"]["decomposition_time"]

\* The fields WasteScanResponse requires of a reconciler result, with the
\* types it declares for them.
WellFormedScanResult(r) ==
    /\ {"item_name", "category", "confidence", "recyclable", "disposal_steps",
        "bin_color", "environmental_impact"} \subseteq DOMAIN r
    /\ r["item_name"].ty = "str"
    /\ r["category"].ty = "str"
    /\ r["confidence"].ty = "num" /\ 0 <= r["confidence"].n /\ r["confidence"].n <= 100
    /\ r["recyclable"].ty = "bool"
    /\ r["disposal_steps"].ty = "list"
    /\ r["bin_color"].ty = "str"
    /\ r["environmental_impact"].ty = "dict"

\* C9 (as claimed): the reconciler never raises, and every result it
\* returns carries item_name, category, confidence, recyclable,
\* disposal_steps, bin_color and environmental_impact with the types the
\* response model requires.
C9_ResultWellFormed == Returned => WellFormedScanResult(result)


(* ====================== properties of the scan routes ================== *)
\* C10 (as claimed): a scan request with a valid image whose AI call
\* succeeded is answered 200, whatever text the model produced.
C10_ScanReturns200 ==
    (request.route \in {"/scan", "/scan/base64"} /\ request.ai.ok)
      => response.status = 200

\* The request handled last went to a scan route.
ScanRequested == request.route \in {"/scan", "/scan/base64"}

\* Its handler called the AI, and the call raised.
AiCalled == ScanRequested /\ request.ai # NotCalled
AiFailed == AiCalled /\ ~request.ai.ok

\* C11 (as claimed): a scan request is answered 500 exactly when the
\* upstream classification call failed.
C11_Scan500IffAiFails ==
    ScanRequested => (response.status = 500 <=> AiFailed)

\* The answer of POST /scan to the upload at hand does not depend on what
\* the AI would return: the handler never asks it.
ClassifierNotCalled ==
    /\ ~AiCalled
    /\ \A ai \in AiOutcomes :
         scan_waste_image(scans, users, firestore, request.upload, request.user_id,
                          ai, clock, "none").response = response

\* C12 (as claimed): POST /scan answers a 0-byte upload 400 with a message
\* saying the file is empty, and an upload above the configured maximum
\* size 400 with a message stating the limit; the classifier is not called.
C12_EmptyAndOversizedRejected ==
    request.route = "/scan" =>
      /\ request.upload.size = 0 =>
            /\ response.status = 400
            /\ response.detail = << "Empty file uploaded" >>
            /\ ClassifierNotCalled
      /\ request.upload.size > MAX_UPLOAD_SIZE =>
            /\ response.status = 400
            /\ response.detail = << "File too large. Maximum size is 10.0MB" >>
            /\ ClassifierNotCalled

\* C12 (amended): POST /scan answers a 0-byte upload and an upload above the
\* configured maximum size (10 MiB) 400 without calling the classifier; when
\* the part's declared Content-Type starts with image/ the message says the
\* file is empty, respectively states the limit of 10.0MB, and otherwise it
\* is the message of the Content-Type check.
C12_EmptyAndOversizedRejectedByType ==
    (request.route = "/scan"
       /\ (request.upload.size = 0 \/ request.upload.size > MAX_UPLOAD_SIZE)) =>
      /\ response.status = 400
      /\ ClassifierNotCalled
      /\ MAX_UPLOAD_SIZE = 10 * 1024 * 1024
      /\ response.detail =
           (IF ~StartsWithImage(request.upload.content_type)
            THEN << "Invalid file type. Please upload an image file (JPEG, PNG, WebP)" >>
            ELSE IF request.upload.size = 0 THEN << "Empty file uploaded" >>
            ELSE << "File too large. Maximum size is 10.0MB" >>)

C12_Witness ==
    /\ request.route = "/scan"
    /\ request.upload.size > MAX_UPLOAD_SIZE
    /\ StartsWithImage(request.upload.content_type)
    /\ response.status = 400
    /\ response.detail = << "File too large. Maximum size is 10.0MB" >>

\* POST /scan hands the upload to the classifier instead of answering 400.
UploadAccepted(u) ==
    scan_waste_image(EmptyDict, EmptyDict, "none", u, NoUser, AiFails, 0, "none")
      .response.status # 400

\* The endings a file name may have.
Extensions == {".png", ".jpg", ".jpeg", ".webp", ".txt", ".gif"}

\* C13 (as claimed): whether POST /scan accepts an upload is decided by the
\* content type detected from its bytes, never by its name: renaming the
\* file changes nothing, bytes detected as PNG that decode within the size
\* and dimension limits are accepted, and bytes detected as something other
\* than JPEG, PNG or WEBP are rejected.
C13_AcceptanceByContentOnly ==
    request.route = "/scan" =>
      LET u == request.upload
      IN  /\ \A ext \in Extensions :
                UploadAccepted([u EXCEPT !.ext = ext]) = UploadAccepted(u)
          /\ (/\ u.mime = "image/png" /\ u.decodes
              /\ 0 < u.size /\ u.size <= MAX_UPLOAD_SIZE
              /\ min_dimension <= u.width /\ u.width <= max_dimension
              /\ min_dimension <= u.height /\ u.height <= max_dimension)
                => response.status # 400
          /\ u.mime \notin {"image/jpeg", "image/png", "image/webp", "error"}
                => response.status = 400

\* C14 (as claimed): POST /scan/base64 answers 400 to every malformed
\* image_base64, strings too short to be an image included, and neither
\* calls the classifier nor writes a record for it.
C14_MalformedBase64Is400 ==
    (request.route = "/scan/base64" /\ request.base64 \in {"short", "bad_padding"}) =>
      /\ response.status = 400
      /\ ~AiCalled
      /\ \A ai \in AiOutcomes, fault \in DbFaults :
           LET out == scan_waste_base64(scans, users, firestore, request.base64,
                                        request.upload, request.user_id, ai, clock, fault)
           IN  out.response = response /\ out.scans = scans /\ out.users = users

(* ================= properties of the routes over the store ============= *)
StatsRequested == request.route = "/stats"
StoreAnswers == firestore = "up" /\ request.fault = "none"

\* The level and the gap the statistics of p points must show.
HighestLevel(p) ==
    CHOOSE l \in DOMAIN LEVEL_THRESHOLDS :
      /\ LEVEL_THRESHOLDS[l] <= p
      /\ \A m \in DOMAIN LEVEL_THRESHOLDS : LEVEL_THRESHOLDS[m] <= p => m <= l

LevelAndGapRight(p, stats) ==
    /\ stats.level = HighestLevel(p)
    /\ IF stats.level = Len(LEVEL_THRESHOLDS)
       THEN stats.next_level_points = Null
       ELSE /\ stats.next_level_points = Num(LEVEL_THRESHOLDS[stats.level + 1] - p)
            /\ stats.next_level_points.n > 0

\* C15 (as claimed): GET /stats/{user_id} answers 404 whenever no statistics
\* exist for the user; otherwise it reports the highest level whose threshold
\* is <= total_points and the positive gap to the next threshold, none at the
\* top level.
C15_StatsLevelOr404 ==
    StatsRequested =>
      IF request.user_id \notin DOMAIN users THEN response.status = 404
      ELSE /\ response.status = 200
           /\ LevelAndGapRight(users[request.user_id].total_points, response.body.stats)

\* C15 (amended): the same when the store has a client and answers the read;
\* without a client the answer is 503, and 500 when the read raises.
C15_StatsLevelOr404WithStore ==
    StatsRequested =>
      IF firestore = "none" THEN response.status = 503
      ELSE IF request.fault # "none" THEN response.status = 500
      ELSE IF request.user_id \notin DOMAIN users THEN response.status = 404
      ELSE /\ response.status = 200
           /\ LevelAndGapRight(users[request.user_id].total_points, response.body.stats)

\* 1999 points were reported as level 4 with 1 point to go.
C15_Witness ==
    /\ StatsRequested /\ response.status = 200
    /\ users[request.user_id].total_points = 1999
    /\ response.body.stats.level = 4
    /\ response.body.stats.next_level_points = Num(1)

\* A step that handles DELETE /scan/{scan_id}?user_id=.
DeleteHandled == handled' = handled + 1 /\ request'.route = "/scan/delete"
Without(sc, id) == [i \in DOMAIN sc \ {id} |-> sc[i]]

\* C16 (as claimed): DELETE /scan/{scan_id}?user_id=U answers 404 when no
\* record has the id, answers 403 and leaves the record when it is stored
\* under another user_id, and removes a record only when its stored user_id
\* equals U.
C16_DeleteOnlyByOwner ==
    [][DeleteHandled =>
         /\ (request'.scan_id \notin DOMAIN scans => response'.status = 404)
         /\ (request'.scan_id \in DOMAIN scans
               /\ scans[request'.scan_id].user_id # request'.user_id
             => response'.status = 403 /\ scans' = scans)
         /\ (scans' # scans
             => /\ request'.scan_id \in DOMAIN scans
                /\ scans[request'.scan_id].user_id = request'.user_id
                /\ scans' = Without(scans, request'.scan_id))]_vars

\* C16 (amended): the same when the store has a client and answers the read;
\* without a client the answer is 503, 500 when the read raises, and the
\* collection is left as it was in both cases.  The owner's request removes
\* the record and nothing else.
C16_DeleteOnlyByOwnerWithStore ==
    [][DeleteHandled =>
         /\ (firestore = "none" => response'.status = 503 /\ scans' = scans)
         /\ (firestore = "up" /\ request'.fault # "none"
             => response'.status = 500 /\ scans' = scans)
         /\ (firestore = "up" /\ request'.fault = "none"
             => /\ (request'.scan_id \notin DOMAIN scans
                      => response'.status = 404 /\ scans' = scans)
                /\ (request'.scan_id \in DOMAIN scans
                      /\ scans[request'.scan_id].user_id # request'.user_id
                    => response'.status = 403 /\ scans' = scans)
                /\ (request'.scan_id \in DOMAIN scans
                      /\ scans[request'.scan_id].user_id = request'.user_id
                    => response'.status = 200
                       /\ scans' = Without(scans, request'.scan_id)))
         /\ (scans' # scans
             => /\ request'.scan_id \in DOMAIN scans
                /\ scans[request'.scan_id].user_id = request'.user_id)]_vars

\* A record was refused to another user and is still stored.
C16_Witness ==
    /\ request.route = "/scan/delete" /\ response.status = 403
    /\ request.scan_id \in DOMAIN scans
    /\ scans[request.scan_id].user_id # request.user_id

\* C17 (as claimed): with the database available, GET /history/{user_id}
\* answers 200 with that user's stored records only, newest first, offset
\* records skipped and at most min(limit, 100) returned.
C17_HistoryListsUserScans ==
    (request.route = "/history" /\ firestore = "up") =>
      /\ response.status = 200
      /\ response.body.scans =
           HistoryQuery(scans, request.user_id,
                        IF request.limit > 100 THEN 100 ELSE request.limit,
                        request.offset)
      /\ \A n \in DOMAIN response.body.scans :
           /\ response.body.scans[n].data.user_id = request.user_id
           /\ n > 1 => response.body.scans[n].data.timestamp
                        <= response.body.scans[n - 1].data.timestamp

GuideFields == {"bin_color", "instructions", "examples", "co2_saved_per_kg",
                "decomposition_time"}

\* C18 (as claimed): GET /education/{category} answers 404 exactly when the
\* category is outside the fixed category set, and for every category of the
\* set it answers with that category's static guide fields, also when the AI
\* supplement fails.
C18_EducationGuideOr404 ==
    request.route = "/education" =>
      /\ response.status = 404 <=> ~InCategories(request.category)
      /\ InCategories(request.category) =>
           /\ response.status = 200
           /\ request.category \in DOMAIN WASTE_DISPOSAL_GUIDES
           /\ \A k \in GuideFields :
                response.body[k] = WASTE_DISPOSAL_GUIDES[request.category][k]

(* ======================= properties of the errors ====================== *)
\* C19 (as claimed): every error response has the body shape
\* {success: false, error, message}, and a validation error carries details
\* as well.
C19_ErrorBodyShape ==
    response.status >= 400 =>
      /\ {"success", "error", "message"} \subseteq DOMAIN response.body
      /\ response.body.success = FALSE
      /\ response.status = 422 => "details" \in DOMAIN response.body

\* The text of the exception is part of the body.
Exposes(body, text) ==
    \/ "detail" \in DOMAIN body /\ \E i \in DOMAIN body.detail : body.detail[i] = text
    \/ "message" \in DOMAIN body /\ body.message = text

\* C20 (as claimed): in production the body of the 5xx answer to a failed AI
\* call is the generic one and holds no text of the exception.
C20_GenericBodyInProduction ==
    (environment = "production" /\ AiFailed /\ response.status >= 500) =>
      /\ response.body = general_exception_handler(environment, request.ai.exc).body
      /\ ~Exposes(response.body, request.ai.exc)

(* ================= properties of the statistics update ================= *)
Stored(p) == inflight[p].pc = "stored"
PointsOf(p) == inflight[p].scan_data["points_earned"].n
ReadScans(p) == IF inflight[p].user_doc.exists THEN inflight[p].user_doc.data.total_scans ELSE 0
ReadPoints(p) == IF inflight[p].user_doc.exists THEN inflight[p].user_doc.data.total_points ELSE 0

\* C21: the statistics update reads, then writes.  Of two processes that
\* stored a scan for the same user, the later writer leaves what it computed
\* from its own read: when both had read the same stored counters, total_scans
\* is one above them although two scans completed and total_points holds the
\* later scan's points only; when the later writer read after the earlier
\* write, both scans are counted.
C21_LaterWriteOverwrites ==
    \A p, q \in Processes :
      (Stored(p) /\ Stored(q) /\ inflight[p].order < inflight[q].order) =>
        /\ users[RaceUser].total_scans = ReadScans(q) + 1
        /\ users[RaceUser].total_points = ReadPoints(q) + PointsOf(q)
        /\ IF inflight[p].user_doc = inflight[q].user_doc
           THEN /\ users[RaceUser].total_scans = ReadScans(p) + 1
                /\ users[RaceUser].total_points < ReadPoints(p) + PointsOf(p) + PointsOf(q)
           ELSE /\ users[RaceUser].total_scans = ReadScans(p) + 2
                /\ users[RaceUser].total_points = ReadPoints(p) + PointsOf(p) + PointsOf(q)

\* Two scans completed for a user with 3 stored scans, and 4 are stored.
C21_Witness ==
    /\ \A p \in Processes : Stored(p) /\ ReadScans(p) = 3
    /\ users[RaceUser].total_scans = 4
    /\ users[RaceUser].total_points < 190 + 50 + 50

(* ===================== properties of the base64 codec ================== *)
HasComma(t) == \E i \in DOMAIN t : t[i] = Comma

\* The text without everything up to and including its first comma.
WithoutPrefix(t) ==
    LET first == CHOOSE i \in DOMAIN t : t[i] = Comma /\ \A j \in 1 .. (i - 1) : t[j] # Comma
    IN  [n \in 1 .. (Len(t) - first) |-> t[first + n]]
FromText == "text" \in DOMAIN codec.input
FromBytes == "bytes" \in DOMAIN codec.input

\* The pads a text ends with (none, one or two).
TrailingPads(t) ==
    IF Len(t) >= 2 /\ t[Len(t)] = PadChar /\ t[Len(t) - 1] = PadChar THEN 2
    ELSE IF Len(t) >= 1 /\ t[Len(t)] = PadChar THEN 1
    ELSE 0

\* A text as an encoder writes it: alphabet characters only, in whole quads,
\* at most two pads at the end, and no bit set in the part the pads cut off.
Canonical(t) ==
    /\ Len(t) % 4 = 0
    /\ \A i \in 1 .. (Len(t) - TrailingPads(t)) : IsB64(t[i])
    /\ TrailingPads(t) = 2 => t[Len(t) - 2].b64 % 16 = 0
    /\ TrailingPads(t) = 1 => t[Len(t) - 1].b64 % 4 = 0

\* C22 (as claimed): for every text with a data-URL prefix that from_base64
\* accepts, to_base64(from_base64(s)) is s without the prefix up to the first
\* comma; and from_base64(to_base64(b)) is b for all bytes b.
C22_Base64RoundTrip ==
    codec.steps = 2 =>
      /\ FromBytes => codec.now = codec.input
      /\ (FromText /\ HasComma(codec.input.text)) =>
           codec.now = Text(WithoutPrefix(codec.input.text))

\* C22 (amended): the same for the texts whose part after the first comma is
\* as an encoder writes it; from_base64 accepts every such text.
C22_Base64RoundTripCanonical ==
    /\ codec.steps = 2 =>
         /\ FromBytes => codec.now = codec.input
         /\ (FromText /\ HasComma(codec.input.text)
               /\ Canonical(WithoutPrefix(codec.input.text))) =>
              codec.now = Text(WithoutPrefix(codec.input.text))
    /\ (codec.steps = 1 /\ FromText /\ HasComma(codec.input.text)
          /\ Canonical(WithoutPrefix(codec.input.text))) =>
         "bytes" \in DOMAIN codec.now

\* A prefixed text of one padded quad went there and back unchanged.
C22_Witness ==
    /\ codec.steps = 2 /\ FromText /\ HasComma(codec.input.text)
    /\ Len(codec.input.text) = Len(DataUrlPrefix) + 5
    /\ TrailingPads(codec.input.text) = 2
    /\ codec.now = Text(WithoutPrefix(codec.input.text))

(* ================== properties of the stored scans ===================== *)
\* A step that handles a scan request of a user.
ScanHandled == handled' = handled + 1 /\ request'.route \in {"/scan", "/scan/base64"}
ScanSucceeded == ScanHandled /\ response'.status = 200
PointsEarned == response'.body["points_earned"].n

\* C23 (as claimed): with the database available, every successful scan of
\* a user adds 1 to the user's stored total_scans and its points_earned to
\* total_points; the first one creates the record with total_scans = 1.
C23_StatsAccumulate ==
    [][(ScanSucceeded /\ firestore = "up" /\ request'.fault = "none"
         /\ request'.user_id # NoUser) =>
         /\ request'.user_id \in DOMAIN users'
         /\ IF request'.user_id \in DOMAIN users
            THEN /\ users'[request'.user_id].total_scans
                      = users[request'.user_id].total_scans + 1
                 /\ users'[request'.user_id].total_points
                      = users[request'.user_id].total_points + PointsEarned
            ELSE /\ users'[request'.user_id].total_scans = 1
                 /\ users'[request'.user_id].total_points = PointsEarned]_vars

(* ==================== properties of the backfill ======================= *)
\* The category the reconciler works with: the AI's, or "Unknown" for one
\* outside the category list.
CoercedCategory ==
    IF AiObject["category"] \in CategorySet THEN AiObject["category"].s ELSE "Unknown"

AiImpactSupplies(key) ==
    /\ AiSupplies("environmental_impact")
    /\ AiObject["environmental_impact"].ty = "dict"
    /\ key \in DOMAIN AiObject["environmental_impact"].d

\* The result holds the guide's value wherever the AI left one out, and the
\* guide's examples.
FilledFrom(guide) ==
    /\ result["disposal_steps"] =
         IF AiSupplies("disposal_steps") /\ Truthy(AiObject["disposal_steps"])
         THEN AiObject["disposal_steps"] ELSE guide["instructions"]
    /\ result["bin_color"] =
         IF AiSupplies("bin_color") THEN AiObject["bin_color"] ELSE guide["bin_color"]
    /\ result["environmental_impact"].ty = "dict"
    /\ result["environmental_impact"].d["co2_saved_kg"] =
         IF AiImpactSupplies("co2_saved_kg")
         THEN AiObject["environmental_impact"].d["co2_saved_kg"]
         ELSE guide["co2_saved_per_kg"]
    /\ result["environmental_impact"].d["decomposition_time"] =
         IF AiImpactSupplies("decomposition_time")
         THEN AiObject["environmental_impact"].d["decomposition_time"]
         ELSE guide["decomposition_time"]
    /\ result["examples"] = guide["examples"]

\* The result holds these fields exactly as the AI gave them.
NotFilled ==
    \A key \in {"disposal_steps", "bin_color", "environmental_impact", "examples"} :
      /\ key \in DOMAIN result <=> AiSupplies(key)
      /\ AiSupplies(key) => result[key] = AiObject[key]

Backfilled ==
    IF CoercedCategory \in DOMAIN WASTE_DISPOSAL_GUIDES
    THEN FilledFrom(WASTE_DISPOSAL_GUIDES[CoercedCategory])
    ELSE NotFilled

\* C24 (as claimed): for every AI object with the required fields, when its
\* (possibly coerced) category has a guide entry the result has disposal_steps
\* from the guide if absent or empty, bin_color from the guide if absent,
\* co2_saved_kg and decomposition_time from the guide if absent, and the
\* guide's examples; without a guide entry the fields are as parsed.
C24_BackfillFromGuideAlways ==
    (Returned /\ AiHasRequired) => Backfilled

\* C24 (amended): the same whenever the reconciler returns the reconciled AI
\* object and not the fallback result.
C24_BackfillFromGuide ==
    NotFallback => Backfilled

\* An empty disposal_steps list was replaced by the guide's instructions,
\* the missing bin_color filled, and the examples attached.
C24_Witness ==
    /\ NotFallback
    /\ CoercedCategory = "E-Waste"
    /\ AiSupplies("disposal_steps") /\ AiObject["disposal_steps"] = List(<< >>)
    /\ ~AiSupplies("bin_color")
    /\ AiImpactSupplies("co2_saved_kg") /\ ~AiImpactSupplies("decomposition_time")
    /\ result["disposal_steps"] = WASTE_DISPOSAL_GUIDES["E-Waste"]["instructions"]
    /\ result["bin_color"] = WASTE_DISPOSAL_GUIDES["E-Waste"]["bin_color"]
    /\ result["examples"] = WASTE_DISPOSAL_GUIDES["E-Waste"]["examples"]

(* ================= properties of the fence extraction ================== *)
\* Where the text after the opening marker starts (0-based), and where the
\* closing marker is (-1 without one).
AfterOpening ==
    IF PyContains(ai_text, FenceJson) THEN PyFind(ai_text, FenceJson, 0) + 7
    ELSE PyFind(ai_text, Fence, 0) + 3
ClosingAt == PyFind(ai_text, Fence, AfterOpening)
Opened == PyContains(ai_text, Fence)

\* The result but for the copy of the text that the fallback keeps.
ButRawCopy(r) == DictSet(r, "raw_ai_response", Null)

\* C25 (as claimed): for a text with an opening fence marker and no closing
\* one, the result is that of parsing all the text after the opening marker;
\* with a closing marker it is that of parsing the text between the two.
C25_UnclosedFenceKeepsRest ==
    (Returned /\ Opened) =>
      IF ClosingAt < 0
      THEN ButRawCopy(result)
             = ButRawCopy(_parse_gemini_response(
                            PyStrip(PySlice(ai_text, AfterOpening, Len(ai_text)))))
      ELSE ButRawCopy(result)
             = ButRawCopy(_parse_gemini_response(
                            PyStrip(PySlice(ai_text, AfterOpening, ClosingAt))))

(* ==================== properties of the static tables ================== *)
\* C26 (as claimed): the category list has 8 entries, every one of them has
\* a disposal guide, and every guide belongs to a category of the list; so
\* whatever category a result carries has a guide.
C26_GuidesInSync ==
    /\ Len(WASTE_CATEGORIES) = 8
    /\ \A i \in DOMAIN WASTE_CATEGORIES : WASTE_CATEGORIES[i] \in DOMAIN WASTE_DISPOSAL_GUIDES
    /\ \A c \in DOMAIN WASTE_DISPOSAL_GUIDES : InCategories(c)
    /\ Returned => result["category"].s \in DOMAIN WASTE_DISPOSAL_GUIDES

\* C27 (as claimed): with the database available, every successful scan adds
\* one record under an id no earlier scan used and leaves the records of the
\* earlier scans as they were.
C27_ScanIdsNeverReused ==
    [][(ScanSucceeded /\ firestore = "up" /\ request'.fault # "set_raises") =>
         /\ response'.scan_id \notin DOMAIN scans
         /\ DOMAIN scans' = DOMAIN scans \cup {response'.scan_id}
         /\ Cardinality(DOMAIN scans') = Cardinality(DOMAIN scans) + 1
         /\ \A i \in DOMAIN scans : scans'[i] = scans[i]]_vars

\* C28 (as claimed): a scan request answered with an error leaves both
\* collections as they were.
C28_ErrorLeavesStoreUnchanged ==
    [][(ScanHandled /\ response'.status >= 400) =>
         scans' = scans /\ users' = users]_vars

(* ================== properties of the persistence ====================== *)
\* What the route of request req answers, and stores, over collections sc
\* and us with store db and store fault.
RouteOutcome(req, sc, us, db, now, fault) ==
    IF req.route = "/scan"
    THEN scan_waste_image(sc, us, db, req.upload, req.user_id, req.ai, now, fault)
    ELSE scan_waste_base64(sc, us, db, req.base64, req.upload, req.user_id, req.ai,
                           now, fault)

RecordsOf(user_id) == { i \in DOMAIN scans : scans[i].user_id = user_id }

\* C30: a DELETE answered 200 removes the record of that id and no other,
\* and leaves every user's statistics as they were; the owner's total_scans
\* is not lowered.
C30_DeleteTouchesOneRecord ==
    [][(DeleteHandled /\ response'.status = 200) =>
         /\ request'.scan_id \in DOMAIN scans
         /\ DOMAIN scans' = DOMAIN scans \ {request'.scan_id}
         /\ \A i \in DOMAIN scans' : scans'[i] = scans[i]
         /\ users' = users]_vars

\* After a deletion the owner has 2 scans counted and 1 record left.
C30_Witness ==
    /\ request.route = "/scan/delete" /\ response.status = 200
    /\ request.user_id \in DOMAIN users
    /\ users[request.user_id].total_scans = 2
    /\ Cardinality(RecordsOf(request.user_id)) = 1
    /\ users[request.user_id].total_scans > Cardinality(RecordsOf(request.user_id))

====
